---- MODULE Spec2Model ----
(***************************************************************************)
(* Relationship search of gedcom-parser (src/src/gedcom_mcp).              *)
(*                                                                         *)
(* The model follows gedcom_search.py: the neighbor resolver               *)
(* (_get_person_neighbors_lazy), the connectivity probe                    *)
(* (check_component_connectivity), the bidirectional engine                *)
(* (_dijkstra_bidirectional_search, one action per iteration of its main   *)
(* loop) and the entry point find_shortest_relationship_path, over the     *)
(* record set that gedcom_data_access.py reads (family records with HUSB,  *)
(* WIFE and CHIL pointers, individuals with SEX).                          *)
(*                                                                         *)
(* Person identifiers are strings in the program ("@I1@"); the program     *)
(* compares them as strings in sorted() and in NodePriority.__lt__.  The   *)
(* model uses the integers 1..NumPersons, whose order stands for the       *)
(* string order of the identifiers.  NoPerson (0) stands for None.         *)
(*                                                                         *)
(* Wall-clock time is not modelled: the time limit of the main loop        *)
(* (time_limit = 120 s) is never exceeded on the record sets of the model, *)
(* and nodes_processed / edges_examined feed only the logging.  The        *)
(* NodePriority fields path and target_birth_year are never read by the    *)
(* search (init_heuristics is not called by it) and are left out of the    *)
(* queue entries.  The LRU bounds of the caches (2000 and 10000 entries)   *)
(* are far above the number of keys of any modelled record set, so no      *)
(* eviction happens.                                                       *)
(***************************************************************************)
EXTENDS Integers, Sequences, FiniteSets, TLC

(***************************************************************************)
(* Bounds of the model.                                                    *)
(***************************************************************************)
NumPersons == 3
MaxFamilies == 1
MaxDistanceArg == 3
MaxMinDistance == 2

(***************************************************************************)
(* Program constants.                                                      *)
(***************************************************************************)
NoPerson == 0
Infinity == 999
NO_BIRTH_YEAR_PENALTY == 9999
DISTANCE_CAP == 100
DEFAULT_MAX_DISTANCE == 30
PROBE_MAX_DEPTH == 50
EDGE_WEIGHT == 1

Persons == 1..NumPersons

\* endpoint strings that are no identifier of a record, numbered after them
QueryTexts == (NumPersons + 2)..(NumPersons + 4)
Sexes == {"M", "F", "U"}
Kinds == {"parent", "child", "spouse", "sibling", "mother", "father"}

\* the larger value, as the comment at line 25 words it (line 28 takes the smaller)
Max2(a, b) == IF a >= b THEN a ELSE b

Min2(a, b) == IF a <= b THEN a ELSE b

\* sorted(set): the ascending sequence of a finite set of identifiers
RECURSIVE Sorted(_)
Sorted(S) ==
    IF S = {} THEN <<>>
    ELSE LET m == CHOOSE x \in S : \A y \in S : x <= y
         IN <<m>> \o Sorted(S \ {m})

(***************************************************************************)
(* The record set: family_lookup holds the family records, sex the SEX tag *)
(* of each individual.  An individual's FAMC / FAMS tags are those of a    *)
(* consistent file: FAMC names the families that list the person as CHIL,  *)
(* FAMS those that list the person as HUSB or WIFE.                        *)
(***************************************************************************)
FamilyRecords ==
    { f \in [husb : Persons \cup {NoPerson}, wife : Persons \cup {NoPerson},
             chil : SUBSET Persons] :
        /\ (f.husb = NoPerson \/ f.husb # f.wife)
        /\ f.husb \notin f.chil
        /\ f.wife \notin f.chil
        /\ ~(f.husb = NoPerson /\ f.wife = NoPerson /\ f.chil = {}) }

\* the sets of at most k family records
RECURSIVE UpTo(_)
UpTo(k) ==
    IF k = 0 THEN {{}}
    ELSE UpTo(k - 1) \cup { F \cup {f} : F \in UpTo(k - 1), f \in FamilyRecords }

\* three generations in two family records: a parent of b, b parent of c
Lineages ==
    { { [husb |-> t[1], wife |-> NoPerson, chil |-> {t[2]}],
        [husb |-> t[2], wife |-> NoPerson, chil |-> {t[3]}] } :
      t \in { u \in Persons \X Persons \X Persons :
                u[1] # u[2] /\ u[2] # u[3] /\ u[1] # u[3] } }

RecordSets == UpTo(MaxFamilies) \cup Lineages

\* _get_person_relationships_internal, the part that reads the records
ComputeRelationships(families, sexOf, person_id) ==
    LET famc == { f \in families : person_id \in f.chil }
        fams == { f \in families : f.husb = person_id \/ f.wife = person_id }
        parents == { p \in DOMAIN sexOf : \E f \in famc : p = f.husb \/ p = f.wife }
        children == UNION { f.chil : f \in fams }
        spouses == { p \in DOMAIN sexOf : \E f \in fams :
                        \/ (f.husb = person_id /\ p = f.wife)
                        \/ (f.husb # person_id /\ f.wife = person_id /\ p = f.husb) }
    IN [id |-> person_id, gender |-> sexOf[person_id],
        parents |-> Sorted(parents), spouses |-> Sorted(spouses),
        children |-> Sorted(children)]

VARIABLES
    family_lookup,               \* gedcom_ctx.family_lookup: the family records
    sex,                         \* SEX tag of each individual of individual_lookup
    person_relationships_cache,  \* gedcom_ctx.person_relationships_cache
    neighbor_cache,              \* gedcom_ctx.neighbor_cache
    request,                     \* arguments of the call being served
    pc,                          \* position of the call: idle, loop, resolve, done
    search,                      \* local variables of _dijkstra_bidirectional_search
    result                       \* value returned to the caller

vars == <<family_lookup, sex, person_relationships_cache, neighbor_cache,
          request, pc, search, result>>

(***************************************************************************)
(* Caches.  A cache is a function from the keys it holds to the stored     *)
(* values; the pair [rel, nb] of the two caches is threaded through the    *)
(* operators that model code reading and filling them.                     *)
(***************************************************************************)
Caches == [rel |-> person_relationships_cache, nb |-> neighbor_cache]

\* the keys of gedcom_ctx.individual_lookup: the individuals of the record set
Individuals == DOMAIN sex

\* data_access 252-255: None for a string that is no key of individual_lookup;
\* callers test it with "if not person_relationships" and read nothing of it
NoRelationships ==
    [id |-> NoPerson, gender |-> "", parents |-> <<>>, spouses |-> <<>>,
     children |-> <<>>]

\* _get_person_relationships_internal: the cached value, or the computed one
GetRelationships(relc, person_id) ==
    IF person_id \in DOMAIN relc THEN relc[person_id]
    ELSE IF person_id \notin Individuals THEN NoRelationships
    ELSE ComputeRelationships(family_lookup, sex, person_id)

\* the relationships cache after _get_person_relationships_internal(person_id)
StoreRelationships(relc, person_id) ==
    IF person_id \in DOMAIN relc \/ person_id \notin Individuals THEN relc
    ELSE relc @@ (person_id :> ComputeRelationships(family_lookup, sex, person_id))

SeqToSet(s) == { s[i] : i \in 1..Len(s) }

RECURSIVE StoreAll(_, _)
StoreAll(relc, ids) ==
    IF ids = <<>> THEN relc
    ELSE StoreAll(StoreRelationships(relc, Head(ids)), Tail(ids))

\* gedcom_search.py 443-461: the parent edges, gender-conditioned
RECURSIVE ParentEdges(_, _, _)
ParentEdges(relc, parents, allowed) ==
    IF parents = <<>> THEN <<>>
    ELSE LET parent_id == Head(parents)
             g == GetRelationships(relc, parent_id).gender
             rest == ParentEdges(relc, Tail(parents), allowed)
         IN IF "parent" \in allowed
                THEN <<<<parent_id, EDGE_WEIGHT, "parent">>>> \o rest
            ELSE IF "mother" \in allowed /\ g = "F"
                THEN <<<<parent_id, EDGE_WEIGHT, "mother">>>> \o rest
            ELSE IF "father" \in allowed /\ g = "M"
                THEN <<<<parent_id, EDGE_WEIGHT, "father">>>> \o rest
            ELSE rest

LabelAll(ids, label) == [i \in 1..Len(ids) |-> <<ids[i], EDGE_WEIGHT, label>>]

\* gedcom_search.py 441-484: the neighbor list built from the relationships rel
NeighborList(relc, rel, person_id, allowed, exclude_spouse_children) ==
    LET parentPart ==
            IF allowed \cap {"parent", "mother", "father"} # {}
            THEN ParentEdges(relc, rel.parents, allowed) ELSE <<>>
        childPart ==
            IF "child" \in allowed /\ ~exclude_spouse_children
            THEN LabelAll(rel.children, "child") ELSE <<>>
        spousePart ==
            IF "spouse" \in allowed /\ ~exclude_spouse_children
            THEN LabelAll(rel.spouses, "spouse") ELSE <<>>
        siblings ==
            UNION { SeqToSet(GetRelationships(relc, p).children) \ {person_id} :
                    p \in SeqToSet(rel.parents) }
        siblingPart ==
            IF "sibling" \in allowed
            THEN LabelAll(Sorted(siblings), "sibling") ELSE <<>>
    IN parentPart \o childPart \o spousePart \o siblingPart

\* gedcom_search.py 433-484: the neighbor list computed on a cache miss
ComputeNeighbors(relc, person_id, allowed, exclude_spouse_children) ==
    NeighborList(relc, GetRelationships(relc, person_id), person_id, allowed,
                 exclude_spouse_children)

\* variant: the cache key leaves the exclusion flag out
GetNeighborsSharedKey(c, person_id, allowed, exclude_spouse_children) ==
    IF <<person_id, allowed, FALSE>> \in DOMAIN c.nb
        THEN c.nb[<<person_id, allowed, FALSE>>]
    ELSE IF <<person_id, allowed, TRUE>> \in DOMAIN c.nb
        THEN c.nb[<<person_id, allowed, TRUE>>]
    ELSE ComputeNeighbors(c.rel, person_id, allowed, exclude_spouse_children)

\* _get_person_neighbors_lazy: the list it returns
GetNeighbors(c, person_id, allowed, exclude_spouse_children) ==
    LET cache_key == <<person_id, allowed, exclude_spouse_children>>
    IN IF cache_key \in DOMAIN c.nb THEN c.nb[cache_key]
       ELSE ComputeNeighbors(c.rel, person_id, allowed, exclude_spouse_children)

\* _get_person_neighbors_lazy: the caches it leaves
AfterNeighbors(c, person_id, allowed, exclude_spouse_children) ==
    LET cache_key == <<person_id, allowed, exclude_spouse_children>>
        rel == GetRelationships(c.rel, person_id)
        readsParents == allowed \cap {"parent", "mother", "father", "sibling"} # {}
        relc1 == StoreRelationships(c.rel, person_id)
        relc2 == IF readsParents THEN StoreAll(relc1, rel.parents) ELSE relc1
    IN IF cache_key \in DOMAIN c.nb THEN c
       ELSE [rel |-> relc2,
             nb |-> c.nb @@ (cache_key :>
                       ComputeNeighbors(c.rel, person_id, allowed,
                                        exclude_spouse_children))]

\* _get_person_neighbors_lazy_reverse delegates to _get_person_neighbors_lazy
GetNeighborsReverse(c, person_id, allowed, exclude_spouse_children) ==
    GetNeighbors(c, person_id, allowed, exclude_spouse_children)

NeighborIds(list) == { list[i][1] : i \in 1..Len(list) }

(***************************************************************************)
(* check_component_connectivity (gedcom_search.py 364-412): breadth-first  *)
(* probe with a budget of max_depth dequeued nodes.  The outcome is        *)
(* "True", "False" or "None"; c are the caches it leaves.                  *)
(***************************************************************************)
\* lines 393-396: enqueue the neighbors not seen before, in list order
RECURSIVE EnqueueNew(_, _, _)
EnqueueNew(queue, visited, list) ==
    IF list = <<>> THEN [queue |-> queue, visited |-> visited]
    ELSE LET neighbor_id == Head(list)[1]
         IN IF neighbor_id \in visited
            THEN EnqueueNew(queue, visited, Tail(list))
            ELSE EnqueueNew(Append(queue, neighbor_id),
                            visited \cup {neighbor_id}, Tail(list))

RECURSIVE ProbeLoop(_, _, _, _, _, _, _)
ProbeLoop(queue, visited, nodes_visited, c, person2_id, allowed, max_depth) ==
    IF queue # <<>> /\ nodes_visited < max_depth
    THEN LET current == Head(queue)
             neighbors == GetNeighbors(c, current, allowed, FALSE)
             c1 == AfterNeighbors(c, current, allowed, FALSE)
             q == EnqueueNew(Tail(queue), visited, neighbors)
         IN IF current = person2_id
            THEN [outcome |-> "True", c |-> c]
            ELSE ProbeLoop(q.queue, q.visited, nodes_visited + 1, c1,
                           person2_id, allowed, max_depth)
    ELSE IF nodes_visited >= max_depth THEN [outcome |-> "None", c |-> c]
         ELSE IF person2_id \in visited THEN [outcome |-> "True", c |-> c]
         ELSE [outcome |-> "False", c |-> c]

\* variant: the probe with no node budget
ProbeUnbounded(person1_id, person2_id, allowed, c, max_depth) ==
    IF person1_id = person2_id THEN [outcome |-> "True", c |-> c]
    ELSE ProbeLoop(<<person1_id>>, {person1_id}, 0, c, person2_id, allowed,
                   NumPersons + 1)

check_component_connectivity(person1_id, person2_id, allowed, c, max_depth) ==
    IF person1_id = person2_id THEN [outcome |-> "True", c |-> c]
    ELSE ProbeLoop(<<person1_id>>, {person1_id}, 0, c, person2_id, allowed,
                   max_depth)

(***************************************************************************)
(* NodePriority (gedcom_models.py 41-129).  The search never calls         *)
(* init_heuristics, so an entry keeps the values of __post_init__:         *)
(* _adjusted_distance = distance, _birth_year_distance = the penalty.      *)
(***************************************************************************)
NodePriority(distance, person_id) ==
    [distance |-> distance, person_id |-> person_id,
     adjusted_distance |-> distance,
     birth_year_distance |-> NO_BIRTH_YEAR_PENALTY]

\* NodePriority.__lt__: tuple comparison of the sort keys
PriorityLess(a, b) ==
    \/ a.adjusted_distance < b.adjusted_distance
    \/ /\ a.adjusted_distance = b.adjusted_distance
       /\ \/ a.birth_year_distance < b.birth_year_distance
          \/ /\ a.birth_year_distance = b.birth_year_distance
             /\ a.person_id < b.person_id

\* heapq: the entry heappop returns, pq[0]
HeapMin(pq) == CHOOSE x \in pq : \A y \in pq : y = x \/ PriorityLess(x, y)

(***************************************************************************)
(* _dijkstra_bidirectional_search (gedcom_search.py 15-361).               *)
(* An engine state E is [l, c, pc, ret]: the local variables, the caches,  *)
(* the position (loop, resolve, done) and the returned (path, distance).   *)
(* A path of None is the empty sequence NoPath.                            *)
(***************************************************************************)
NoPath == <<>>
NoneResult == [path |-> NoPath, distance |-> -1]

Other(side) == IF side = "forward" THEN "backward" ELSE "forward"

\* lines 76-92: one side's maps, rooted at root
InitSide(root) ==
    [distances |-> [p \in Individuals |-> IF p = root THEN 0 ELSE Infinity],
     previous  |-> [p \in Individuals |-> NoPerson],
     visited   |-> {},
     pq        |-> {NodePriority(0, root)}]

\* lines 62-107: the local variables at the head of the main loop
InitLocals(start, end, allowed_relationships, effective_max_distance, exclude_initial_spouse_children, min_distance, strict_min_distance, connectivity_result, swapped) ==
    [original_start |-> start, original_end |-> end,
     start |-> IF swapped THEN end ELSE start,
     end |-> IF swapped THEN start ELSE end,
     swapped |-> swapped,
     allowed_relationships |-> allowed_relationships,
     effective_max_distance |-> effective_max_distance,
     exclude_initial_spouse_children |-> exclude_initial_spouse_children,
     min_distance |-> min_distance,
     strict_min_distance |-> strict_min_distance,
     connectivity_result |-> connectivity_result,
     forward |-> InitSide(IF swapped THEN end ELSE start),
     backward |-> InitSide(IF swapped THEN start ELSE end),
     best_distance |-> Infinity, meeting_node |-> NoPerson,
     shortest_distance |-> Infinity,
     shortest_meeting_node |-> NoPerson]

\* lines 36-39 and 62-107: the return on a negative probe, or the loop entry
EnterLoop(l, connectivity_result, c1, c3) ==
    IF connectivity_result = "False"
    THEN [l |-> l, c |-> c1, pc |-> "done", ret |-> NoneResult]
    ELSE [l |-> l, c |-> c3, pc |-> "loop", ret |-> NoneResult]

\* lines 56-70: the end person's neighbors and the swap decision
AfterStartNeighbors(start, end, allowed_relationships, effective_max_distance, exclude_initial_spouse_children, min_distance, strict_min_distance, probe, start_neighbors, c2) ==
    EnterLoop(InitLocals(start, end, allowed_relationships,
                         effective_max_distance,
                         exclude_initial_spouse_children, min_distance,
                         strict_min_distance, probe.outcome,
                         Len(GetNeighbors(c2, end, allowed_relationships,
                                          exclude_initial_spouse_children))
                             < Len(start_neighbors)),
              probe.outcome, probe.c,
              AfterNeighbors(c2, end, allowed_relationships,
                             exclude_initial_spouse_children))

\* lines 49-55: the start person's neighbors, read after the probe
AfterProbe(start, end, allowed_relationships, effective_max_distance, exclude_initial_spouse_children, min_distance, strict_min_distance, probe) ==
    AfterStartNeighbors(start, end, allowed_relationships,
                        effective_max_distance,
                        exclude_initial_spouse_children, min_distance,
                        strict_min_distance, probe,
                        GetNeighbors(probe.c, start, allowed_relationships,
                                     exclude_initial_spouse_children),
                        AfterNeighbors(probe.c, start, allowed_relationships,
                                       exclude_initial_spouse_children))

\* lines 19-107: the prelude up to the main loop
EngineStart(start, end, allowed_relationships, c, max_distance, exclude_initial_spouse_children, min_distance, strict_min_distance) ==
    AfterProbe(start, end, allowed_relationships,
               Min2(max_distance, DISTANCE_CAP),
               exclude_initial_spouse_children, min_distance,
               strict_min_distance,
               check_component_connectivity(start, end, allowed_relationships,
                                            c, PROBE_MAX_DEPTH))

MinPending(pq) == IF pq # {} THEN HeapMin(pq).distance ELSE Infinity

\* lines 109-145: the loop condition and the stop conditions at the loop top;
\* effective_max_distance * 1.2 is compared in integers (5 * sum > 6 * max)
LoopStops(l) ==
    LET forward_pq == l.forward.pq
        backward_pq == l.backward.pq
        min_forward_dist == MinPending(forward_pq)
        min_backward_dist == MinPending(backward_pq)
    IN \/ (forward_pq = {} /\ backward_pq = {})
       \/ /\ forward_pq # {} /\ backward_pq # {}
          /\ 5 * (min_forward_dist + min_backward_dist)
                > 6 * l.effective_max_distance
       \/ (forward_pq = {} /\ l.best_distance = Infinity)
       \/ (backward_pq = {} /\ l.best_distance = Infinity)
       \/ /\ l.best_distance # Infinity
          /\ min_forward_dist + min_backward_dist >= l.best_distance

\* line 149: the side the iteration expands
ChosenSide(l) ==
    IF /\ l.forward.pq # {}
       /\ (l.backward.pq = {}
           \/ Cardinality(l.forward.visited) <= Cardinality(l.backward.visited))
    THEN "forward" ELSE "backward"

\* variant: an entry is pushed for every neighbor that is not visited
RECURSIVE RelaxPushAll(_, _, _, _)
RelaxPushAll(side, neighbors, current_node, current_distance) ==
    IF neighbors = <<>> THEN side
    ELSE LET neighbor == Head(neighbors)[1]
             distance == current_distance + Head(neighbors)[2]
             rest == Tail(neighbors)
         IN IF neighbor \in side.visited
            THEN RelaxPushAll(side, rest, current_node, current_distance)
            ELSE IF distance < side.distances[neighbor]
            THEN RelaxPushAll(
                     [side EXCEPT !.distances[neighbor] = distance,
                                  !.previous[neighbor] = current_node,
                                  !.pq = @ \cup {NodePriority(distance, neighbor)}],
                     rest, current_node, current_distance)
            ELSE RelaxPushAll(
                     [side EXCEPT !.pq = @ \cup {NodePriority(distance, neighbor)}],
                     rest, current_node, current_distance)

\* variant: every edge counted twice
RECURSIVE RelaxDoubleWeight(_, _, _, _)
RelaxDoubleWeight(side, neighbors, current_node, current_distance) ==
    IF neighbors = <<>> THEN side
    ELSE LET neighbor == Head(neighbors)[1]
             distance == current_distance + 2 * Head(neighbors)[2]
             rest == Tail(neighbors)
         IN IF neighbor \notin side.visited /\ distance < side.distances[neighbor]
            THEN RelaxDoubleWeight(
                     [side EXCEPT !.distances[neighbor] = distance,
                                  !.previous[neighbor] = current_node,
                                  !.pq = @ \cup {NodePriority(distance, neighbor)}],
                     rest, current_node, current_distance)
            ELSE RelaxDoubleWeight(side, rest, current_node, current_distance)

\* lines 204-214 / 271-281: relax the neighbors of current_node in list order
RECURSIVE Relax(_, _, _, _)
Relax(side, neighbors, current_node, current_distance) ==
    IF neighbors = <<>> THEN side
    ELSE LET neighbor == Head(neighbors)[1]
             weight == Head(neighbors)[2]
             distance == current_distance + weight
         IN IF neighbor \in side.visited
            THEN Relax(side, Tail(neighbors), current_node, current_distance)
            ELSE IF distance < side.distances[neighbor]
            THEN Relax([side EXCEPT !.distances[neighbor] = distance,
                                    !.previous[neighbor] = current_node,
                                    !.pq = @ \cup {NodePriority(distance, neighbor)}],
                       Tail(neighbors), current_node, current_distance)
            ELSE Relax(side, Tail(neighbors), current_node, current_distance)

\* acceptance of a meeting point with min_distance ignored
AcceptsAny(total_distance, min_distance, best_distance) ==
    total_distance < best_distance

\* lines 165-188 / 232-255: is the meeting point accepted (and the loop left)
AcceptsMeeting(total_distance, min_distance, best_distance) ==
    \/ (total_distance >= min_distance /\ total_distance < best_distance)
    \/ (min_distance = 0 /\ total_distance < best_distance)

\* lines 190-192 / 257-259: the node is not expanded
HalfReached(current_distance, effective_max_distance) ==
    current_distance >= effective_max_distance \div 2

\* lines 149-214 (forward) and 216-281 (backward): one iteration on one side
StepSide(E, side) ==
    LET l == E.l
        me == l[side]
        ot == l[Other(side)]
        root == IF side = "forward" THEN l.start ELSE l.end
        current_priority == HeapMin(me.pq)
        current_distance == current_priority.distance
        current_node == current_priority.person_id
        popped == [me EXCEPT !.pq = @ \ {current_priority}]
        settled == [popped EXCEPT !.visited = @ \cup {current_node}]
        met == current_node \in ot.visited
        total_distance == l.forward.distances[current_node]
                            + l.backward.distances[current_node]
        l1 == IF met /\ total_distance < l.shortest_distance
              THEN [l EXCEPT !.shortest_distance = total_distance,
                             !.shortest_meeting_node = current_node]
              ELSE l
        exclude_for_this_node ==
            l.exclude_initial_spouse_children /\ current_node = root
        neighbors ==
            IF side = "forward"
            THEN GetNeighbors(E.c, current_node, l.allowed_relationships,
                              exclude_for_this_node)
            ELSE GetNeighborsReverse(E.c, current_node, l.allowed_relationships,
                                     exclude_for_this_node)
        c1 == AfterNeighbors(E.c, current_node, l.allowed_relationships,
                             exclude_for_this_node)
    IN IF current_node \in me.visited
          \/ current_distance > me.distances[current_node]
       THEN [E EXCEPT !.l[side] = popped]
       ELSE IF met /\ AcceptsMeeting(total_distance, l.min_distance,
                                     l.best_distance)
       THEN [E EXCEPT !.l = [l1 EXCEPT ![side] = settled,
                                       !.best_distance = total_distance,
                                       !.meeting_node = current_node],
                      !.pc = "resolve"]
       ELSE IF HalfReached(current_distance, l.effective_max_distance)
       THEN [E EXCEPT !.l = [l1 EXCEPT ![side] = settled]]
       ELSE IF l.best_distance # Infinity /\ current_distance >= l.best_distance
       THEN [E EXCEPT !.l = [l1 EXCEPT ![side] = settled]]
       ELSE [E EXCEPT !.l = [l1 EXCEPT ![side] =
                                Relax(settled, neighbors, current_node,
                                      current_distance)],
                      !.c = c1]

\* lines 322-330: the predecessor chain from the root to node
RECURSIVE ForwardChain(_, _)
ForwardChain(previous, node) ==
    IF previous[node] = NoPerson THEN <<node>>
    ELSE Append(ForwardChain(previous, previous[node]), node)

\* lines 333-342: the predecessor chain after node, up to the root
RECURSIVE BackwardChain(_, _)
BackwardChain(previous, node) ==
    IF previous[node] = NoPerson THEN <<>>
    ELSE <<previous[node]>> \o BackwardChain(previous, previous[node])

Reverse(s) == [i \in 1..Len(s) |-> s[Len(s) + 1 - i]]

\* the validation of lines 352-357 left out
HasDuplicatesNever(path) == FALSE

\* line 353: len(full_path) != len(set(full_path))
HasDuplicates(path) == Len(path) # Cardinality(SeqToSet(path))

\* the reversal of lines 346-350 left out
ReconstructPathEngineOrder(l, meeting_node) ==
    ForwardChain(l.forward.previous, meeting_node)
        \o BackwardChain(l.backward.previous, meeting_node)

\* lines 320-350: the path through meeting_node, in the caller's direction
ReconstructPath(l, meeting_node) ==
    LET forward_path == ForwardChain(l.forward.previous, meeting_node)
        backward_path == BackwardChain(l.backward.previous, meeting_node)
        full_path == forward_path \o backward_path
    IN IF l.swapped THEN Reverse(full_path) ELSE full_path

\* lines 300-361: resolution of min_distance, reconstruction, validation
Resolve(E) ==
    LET l == E.l
        noMeeting == l.meeting_node = NoPerson
        fallback == /\ noMeeting
                    /\ l.min_distance > 0
                    /\ l.shortest_meeting_node # NoPerson
                    /\ ~l.strict_min_distance
        meeting_node == IF fallback THEN l.shortest_meeting_node
                        ELSE l.meeting_node
        best_distance == IF fallback THEN l.shortest_distance
                         ELSE l.best_distance
        full_path == ReconstructPath(l, meeting_node)
        l1 == [l EXCEPT !.meeting_node = meeting_node,
                        !.best_distance = best_distance]
    IN IF noMeeting /\ ~fallback
       THEN [E EXCEPT !.pc = "done", !.ret = NoneResult]
       ELSE IF HasDuplicates(full_path)
       THEN [E EXCEPT !.l = l1, !.pc = "done", !.ret = NoneResult]
       ELSE [E EXCEPT !.l = l1, !.pc = "done",
                      !.ret = [path |-> full_path, distance |-> best_distance]]

\* one step of the engine from position pc
EngineStep(E) ==
    IF E.pc = "loop"
    THEN IF LoopStops(E.l) THEN [E EXCEPT !.pc = "resolve"]
         ELSE StepSide(E, ChosenSide(E.l))
    ELSE IF E.pc = "resolve" THEN Resolve(E)
    ELSE E

\* the engine run to its return
RECURSIVE EngineRun(_)
EngineRun(E) == IF E.pc = "done" THEN E ELSE EngineRun(EngineStep(E))

dijkstra_bidirectional_search(start, end, allowed_relationships, c, max_distance, exclude_initial_spouse_children, min_distance, strict_min_distance) ==
    EngineRun(EngineStart(start, end, allowed_relationships, c, max_distance,
                          exclude_initial_spouse_children, min_distance,
                          strict_min_distance))

(***************************************************************************)
(* Path labeler (gedcom_search.py 497-590).                                *)
(***************************************************************************)
\* _correct_relationship_direction; gender is that of get_person_record
correct_relationship_direction(rel_type, from_person, to_person) ==
    IF rel_type = "spouse"
    THEN IF sex[to_person] = "F" THEN "wife_of"
         ELSE IF sex[to_person] = "M" THEN "husband_of" ELSE "spouse_of"
    ELSE IF rel_type = "sibling"
    THEN IF sex[from_person] = "F" THEN "sister_of"
         ELSE IF sex[from_person] = "M" THEN "brother_of" ELSE "sibling_of"
    ELSE IF rel_type = "parent"
    THEN IF sex[to_person] = "F" THEN "child_of_mother"
         ELSE IF sex[to_person] = "M" THEN "child_of_father" ELSE "child_of"
    ELSE IF rel_type = "child"
    THEN IF sex[from_person] = "F" THEN "mother_of"
         ELSE IF sex[from_person] = "M" THEN "father_of" ELSE "parent_of"
    ELSE rel_type

\* the rel_type of the first entry of list that names person, or "" when none
FirstRelTo(list, person) ==
    IF \E i \in 1..Len(list) : list[i][1] = person
    THEN list[CHOOSE i \in 1..Len(list) :
                 /\ list[i][1] = person
                 /\ \A j \in 1..(i - 1) : list[j][1] # person][3]
    ELSE ""

\* lines 504-541: the label of the step current -> next_person
StepLabel(c, current, next_person, allowed) ==
    LET fwd == FirstRelTo(GetNeighbors(c, current, allowed, FALSE), next_person)
        rev == FirstRelTo(GetNeighbors(c, next_person, allowed, FALSE), current)
    IN IF fwd # ""
       THEN correct_relationship_direction(fwd, current, next_person)
       ELSE IF rev = "" THEN "unknown"
       ELSE IF rev = "parent"
       THEN correct_relationship_direction("child", current, next_person)
       ELSE IF rev = "child"
       THEN correct_relationship_direction("parent", current, next_person)
       ELSE correct_relationship_direction(rev, current, next_person)

\* the caches after labelling the step current -> next_person
AfterStepLabel(c, current, next_person, allowed) ==
    LET c1 == AfterNeighbors(c, current, allowed, FALSE)
        fwd == FirstRelTo(GetNeighbors(c, current, allowed, FALSE), next_person)
    IN IF fwd # "" THEN c1 ELSE AfterNeighbors(c1, next_person, allowed, FALSE)

\* _generate_relationship_chain_lazy: the chain and the caches it leaves
RECURSIVE ChainFrom(_, _, _, _)
ChainFrom(c, path, i, allowed) ==
    IF i >= Len(path) THEN [chain |-> <<>>, c |-> c]
    ELSE LET label == StepLabel(c, path[i], path[i + 1], allowed)
             c1 == AfterStepLabel(c, path[i], path[i + 1], allowed)
             rest == ChainFrom(c1, path, i + 1, allowed)
         IN [chain |-> <<label>> \o rest.chain, c |-> rest.c]

generate_relationship_chain_lazy(path, allowed, c) ==
    IF Len(path) < 2 THEN [chain |-> <<>>, c |-> c]
    ELSE ChainFrom(c, path, 1, allowed)

(***************************************************************************)
(* find_shortest_relationship_path (gedcom_search.py 701-894).             *)
(* The argument allowed_relationships is a comma-separated string; the     *)
(* model holds its set of stripped, lower-cased tokens.                    *)
(***************************************************************************)
\* a token list where an unknown token enables every kind
ExpandTokenLenient(rel) ==
    IF rel = "spouse" THEN {"spouse"}
    ELSE IF rel = "mother" THEN {"mother"}
    ELSE IF rel = "father" THEN {"father"}
    ELSE IF rel = "parents" THEN {"parent"}
    ELSE IF rel = "children" THEN {"child"}
    ELSE IF rel = "blood" THEN {"parent", "child"}
    ELSE IF rel = "sibling" THEN {"sibling"}
    ELSE IF rel = "parent" THEN {"parent"}
    ELSE IF rel = "child" THEN {"child"}
    ELSE {"parent", "spouse", "sibling", "child"}

\* lines 781-803: what one token of a comma-separated list adds
ExpandToken(rel) ==
    IF rel = "spouse" THEN {"spouse"}
    ELSE IF rel = "mother" THEN {"mother"}
    ELSE IF rel = "father" THEN {"father"}
    ELSE IF rel = "parents" THEN {"parent"}
    ELSE IF rel = "children" THEN {"child"}
    ELSE IF rel = "blood" THEN {"parent", "child"}
    ELSE IF rel = "sibling" THEN {"sibling"}
    ELSE IF rel = "parent" THEN {"parent"}
    ELSE IF rel = "child" THEN {"child"}
    ELSE IF rel = "all" THEN {"parent", "spouse", "sibling", "child"}
    ELSE {}

\* lines 763-803: the whole-string aliases, then the token list
ParseAllowed(tokens) ==
    IF tokens = {"all"} THEN {"parent", "spouse", "sibling", "child"}
    ELSE IF tokens = {"default"} THEN {"parent", "spouse", "child"}
    ELSE IF tokens = {"blood"} THEN {"parent", "child"}
    ELSE IF tokens = {"parents"} THEN {"parent"}
    ELSE IF tokens = {"children"} THEN {"child"}
    ELSE UNION { ExpandToken(rel) : rel \in tokens }

\* lines 754-755: max_distance below 1 is replaced by the default
NormalizeMaxDistance(max_distance) ==
    IF max_distance < 1 THEN DEFAULT_MAX_DISTANCE ELSE max_distance

\* gedcom_utils.normalize_string on one character: casefold
Casefold(ch) ==
    IF ch = "A" THEN "a" ELSE IF ch = "B" THEN "b" ELSE ch

\* str.strip(): the text without its leading and trailing blanks
RECURSIVE Strip(_)
Strip(text) ==
    IF text = <<>> THEN text
    ELSE IF Head(text) = " " THEN Strip(Tail(text))
    ELSE IF text[Len(text)] = " " THEN Strip(SubSeq(text, 1, Len(text) - 1))
    ELSE text

\* gedcom_utils.normalize_string: blanks stripped, then casefold
normalize_string(text) ==
    [i \in 1..Len(Strip(text)) |-> Casefold(Strip(text)[i])]

\* Python's "sub in text" on strings
Contains(sub, text) ==
    \E i \in 0..(Len(text) - Len(sub)) : SubSeq(text, i + 1, i + Len(sub)) = sub

\* the text of an endpoint string that is no identifier of a record
TextOf(q) ==
    IF q = NumPersons + 2 THEN <<>>
    ELSE IF q = NumPersons + 3 THEN <<" ", "a">>
    ELSE <<"z">>

\* the NAME of the individual record p
NameOf(p) == IF p % 2 = 1 THEN <<"A", "b">> ELSE <<"B", " ", "b">>

\* data_access 127-142: the individuals whose name contains the string
NameMatches(person_id) ==
    { p \in Individuals :
        Contains(normalize_string(TextOf(person_id)), normalize_string(NameOf(p))) }

\* get_person_record: the record found for the string (NoPerson for None):
\* the exact identifier, else the first individual whose name contains it
get_person_record(person_id) ==
    IF person_id \in Individuals THEN person_id
    ELSE IF NameMatches(person_id) # {}
    THEN CHOOSE p \in NameMatches(person_id) : \A q \in NameMatches(person_id) : p <= q
    ELSE NoPerson

\* lines 734-743: "if not person1" on the value of get_person_record
PersonExists(person_id) == get_person_record(person_id) # NoPerson

(***************************************************************************)
(* Requests.  A behaviour serves one call on a context whose caches start  *)
(* empty: a call of find_shortest_relationship_path (which passes no       *)
(* strict flag, so the engine runs non-strict) or a direct call of         *)
(* _dijkstra_bidirectional_search in strict mode.                          *)
(***************************************************************************)
SexProfiles ==
    { [p \in Persons |-> "U"],
      [p \in Persons |-> IF p % 2 = 1 THEN "M" ELSE "F"],
      [p \in Persons |-> IF p % 2 = 1 THEN "F" ELSE "M"] }

FilterArgs ==
    { {"all"}, {"default"}, {"blood"}, {"parents"}, {"mother", "children"},
      {"cousin"} }

EntryRequests ==
    [fn : {"find_shortest_relationship_path"},
     person1_id : Persons, person2_id : Persons,
     allowed_relationships : FilterArgs,
     max_distance : 0..MaxDistanceArg,
     exclude_initial_spouse_children : BOOLEAN,
     min_distance : 0..MaxMinDistance,
     strict_min_distance : {FALSE}]

EngineRequests ==
    [fn : {"_dijkstra_bidirectional_search"},
     person1_id : Persons, person2_id : Persons,
     allowed_relationships : { ParseAllowed(t) : t \in FilterArgs },
     max_distance : 0..MaxDistanceArg,
     exclude_initial_spouse_children : BOOLEAN,
     min_distance : 0..MaxMinDistance,
     strict_min_distance : {TRUE}]

\* calls whose endpoint strings are not both identifiers of records
NameRequests ==
    { r \in [fn : {"find_shortest_relationship_path"},
             person1_id : Persons \cup QueryTexts,
             person2_id : Persons \cup QueryTexts,
             allowed_relationships : {{"all"}},
             max_distance : {0},
             exclude_initial_spouse_children : {FALSE},
             min_distance : {0},
             strict_min_distance : {FALSE}] :
        r.person1_id \notin Persons \/ r.person2_id \notin Persons }

NoSearch == <<>>
NoResult == [error |-> "pending", path |-> NoPath, distance |-> -1,
             relationship_chain |-> <<>>]

Init ==
    /\ family_lookup \in RecordSets
    /\ sex \in SexProfiles
    /\ person_relationships_cache = <<>>
    /\ neighbor_cache = <<>>
    /\ request \in EntryRequests \cup EngineRequests \cup NameRequests
    /\ pc = "idle"
    /\ search = NoSearch
    /\ result = NoResult

\* the engine state held by the variables
CurrentE == [l |-> search, c |-> Caches, pc |-> pc, ret |-> NoneResult]

SetCaches(c) ==
    /\ person_relationships_cache' = c.rel
    /\ neighbor_cache' = c.nb

\* lines 817-833: the negative result of the entry point
NoPathResult == [error |-> "", path |-> NoPath, distance |-> -1,
                 relationship_chain |-> <<>>]

\* the identity answered as a one-step path, both endpoints listed
SelfResultBothEnds(person_id) ==
    [error |-> "", path |-> <<person_id, person_id>>, distance |-> 1,
     relationship_chain |-> <<"self">>]

\* lines 745-751: the identity result
SelfResult(person_id) == [error |-> "", path |-> <<person_id>>, distance |-> 0,
                          relationship_chain |-> <<"self">>]

PersonNotFound(person_id) ==
    [error |-> "Person not found", path |-> NoPath, distance |-> -1,
     relationship_chain |-> <<>>]

\* the engine's (path, distance) as the result of a direct call
EngineResult(ret) == [error |-> "", path |-> ret.path, distance |-> ret.distance,
                      relationship_chain |-> <<>>]

\* lines 817-892: what the entry point makes of the engine's return
EntryResult(ret, relationship_chain) ==
    IF ret.path = NoPath THEN NoPathResult
    ELSE [error |-> "", path |-> ret.path, distance |-> ret.distance,
          relationship_chain |-> relationship_chain]

\* the variables once the prelude has run: E is the engine state it leaves
Enter(E, negative) ==
    /\ search' = E.l
    /\ SetCaches(E.c)
    /\ pc' = E.pc
    /\ result' = IF E.pc = "done" THEN negative ELSE result

\* the variables after one iteration of the main loop
Advance(E) ==
    /\ search' = E.l
    /\ SetCaches(E.c)
    /\ pc' = E.pc

\* lines 817-892: the entry point labels the path and builds its result
Labelled(ret, labels) ==
    /\ result' = EntryResult(ret, labels.chain)
    /\ SetCaches(labels.c)

\* the variables after the engine returns ret with locals l
Finish(E) ==
    /\ search' = E.l
    /\ pc' = "done"
    /\ IF request.fn = "find_shortest_relationship_path"
       THEN Labelled(E.ret,
                     generate_relationship_chain_lazy(
                         E.ret.path, search.allowed_relationships, Caches))
       ELSE /\ result' = EngineResult(E.ret)
            /\ UNCHANGED <<person_relationships_cache, neighbor_cache>>

\* find_shortest_relationship_path up to the engine's main loop
CallFindShortest ==
    /\ pc = "idle"
    /\ request.fn = "find_shortest_relationship_path"
    /\ IF ~PersonExists(request.person1_id)
       THEN /\ result' = PersonNotFound(request.person1_id)
            /\ pc' = "done"
            /\ UNCHANGED <<search, person_relationships_cache, neighbor_cache>>
       ELSE IF ~PersonExists(request.person2_id)
       THEN /\ result' = PersonNotFound(request.person2_id)
            /\ pc' = "done"
            /\ UNCHANGED <<search, person_relationships_cache, neighbor_cache>>
       ELSE IF request.person1_id = request.person2_id
       THEN /\ result' = SelfResult(request.person1_id)
            /\ pc' = "done"
            /\ UNCHANGED <<search, person_relationships_cache, neighbor_cache>>
       ELSE Enter(EngineStart(request.person1_id, request.person2_id,
                              ParseAllowed(request.allowed_relationships),
                              Caches,
                              NormalizeMaxDistance(request.max_distance),
                              request.exclude_initial_spouse_children,
                              request.min_distance, FALSE),
                  NoPathResult)
    /\ UNCHANGED <<family_lookup, sex, request>>

\* a direct call of _dijkstra_bidirectional_search up to its main loop
CallEngine ==
    /\ pc = "idle"
    /\ request.fn = "_dijkstra_bidirectional_search"
    /\ Enter(EngineStart(request.person1_id, request.person2_id,
                         request.allowed_relationships, Caches,
                         request.max_distance,
                         request.exclude_initial_spouse_children,
                         request.min_distance, request.strict_min_distance),
             EngineResult(NoneResult))
    /\ UNCHANGED <<family_lookup, sex, request>>

\* one iteration of the main loop that pops the forward queue
ForwardStep ==
    /\ pc = "loop"
    /\ ~LoopStops(search)
    /\ ChosenSide(search) = "forward"
    /\ Advance(StepSide(CurrentE, "forward"))
    /\ UNCHANGED <<family_lookup, sex, request, result>>

\* one iteration of the main loop that pops the backward queue
BackwardStep ==
    /\ pc = "loop"
    /\ ~LoopStops(search)
    /\ ChosenSide(search) = "backward"
    /\ Advance(StepSide(CurrentE, "backward"))
    /\ UNCHANGED <<family_lookup, sex, request, result>>

\* the loop condition fails or a stop condition at the loop top breaks
LoopBreak ==
    /\ pc = "loop"
    /\ LoopStops(search)
    /\ pc' = "resolve"
    /\ UNCHANGED <<family_lookup, sex, request, result, search,
                   person_relationships_cache, neighbor_cache>>

\* lines 300-361, and for the entry point the labelling of the path
Return ==
    /\ pc = "resolve"
    /\ Finish(Resolve(CurrentE))
    /\ UNCHANGED <<family_lookup, sex, request>>

Next ==
    \/ CallFindShortest
    \/ CallEngine
    \/ ForwardStep
    \/ BackwardStep
    \/ LoopBreak
    \/ Return

Spec == Init /\ [][Next]_vars

\* lines 811-892: the result built from the engine state E at its return
Answer(E, allowed) ==
    EntryResult(E.ret,
                generate_relationship_chain_lazy(E.ret.path, allowed, E.c).chain)

\* find_shortest_relationship_path as a function of its arguments and caches
find_shortest_relationship_path(person1_id, person2_id, tokens, c, max_distance, exclude_initial_spouse_children, min_distance) ==
    IF ~PersonExists(person1_id) THEN PersonNotFound(person1_id)
    ELSE IF ~PersonExists(person2_id) THEN PersonNotFound(person2_id)
    ELSE IF person1_id = person2_id THEN SelfResult(person1_id)
    ELSE Answer(dijkstra_bidirectional_search(
                    person1_id, person2_id, ParseAllowed(tokens), c,
                    NormalizeMaxDistance(max_distance),
                    exclude_initial_spouse_children, min_distance, FALSE),
                ParseAllowed(tokens))

(***************************************************************************)
(* Reference notions used by the properties: the graph of enabled edges    *)
(* read directly from the records.                                         *)
(***************************************************************************)
IsEntry == request.fn = "find_shortest_relationship_path"
Done == pc = "done"
Found == result.path # NoPath

\* the kind set the engine receives for the request
ReqAllowed ==
    IF IsEntry THEN ParseAllowed(request.allowed_relationships)
    ELSE request.allowed_relationships

\* the max_distance in force: 30 when below 1, capped at 100
ReqMaxDistance ==
    LET m == IF IsEntry /\ request.max_distance < 1 THEN 30
             ELSE request.max_distance
    IN IF m > 100 THEN 100 ELSE m

\* q is listed by the Neighbor Resolver for p (no exclusion)
Edge(p, q, allowed) == q \in NeighborIds(ComputeNeighbors(<<>>, p, allowed, FALSE))

\* an enabled edge joins p and q, direction ignored
Linked(p, q, allowed) == Edge(p, q, allowed) \/ Edge(q, p, allowed)

\* the persons within k links of the set S
RECURSIVE Ball(_, _, _)
Ball(S, k, allowed) ==
    IF k = 0 THEN S
    ELSE LET B == Ball(S, k - 1, allowed)
         IN B \cup { q \in Persons : \E p \in B : Linked(p, q, allowed) }

Connected(p, q, allowed) == q \in Ball({p}, NumPersons, allowed)

\* length of a shortest chain of links from p to q (Infinity when none)
GraphDistance(p, q, allowed) ==
    IF ~Connected(p, q, allowed) THEN Infinity
    ELSE CHOOSE k \in 0..NumPersons :
            /\ q \in Ball({p}, k, allowed)
            /\ \A j \in 0..(k - 1) : q \notin Ball({p}, j, allowed)

\* the lengths of the simple paths p -> ... -> q that follow resolver edges
RECURSIVE SimpleLengths(_, _, _, _)
SimpleLengths(p, q, seen, allowed) ==
    IF p = q THEN {0}
    ELSE UNION { { n + 1 : n \in SimpleLengths(r, q, seen \cup {r}, allowed) } :
                 r \in { r \in Persons \ seen : Edge(p, r, allowed) } }

SetMin(S) == CHOOSE x \in S : \A y \in S : x <= y

P1 == request.person1_id
P2 == request.person2_id

(***************************************************************************)
(* Properties.                                                             *)
(***************************************************************************)

\* C1: with min_distance = 0 and the exclusion flag off, a path returned for
\* start # end has the length of a shortest path over the enabled edges.
C1_Optimal ==
    (Done /\ P1 # P2 /\ request.min_distance = 0
          /\ ~request.exclude_initial_spouse_children /\ Found)
    => result.distance = GraphDistance(P1, P2, ReqAllowed)

\* C2: with min_distance = 0 and the exclusion flag off, a pair joined by a
\* path of at most max_distance enabled edges gets a path.
C2_Complete ==
    (Done /\ P1 # P2 /\ request.min_distance = 0
          /\ ~request.exclude_initial_spouse_children
          /\ \E n \in SimpleLengths(P1, P2, {P1}, ReqAllowed) : n <= ReqMaxDistance)
    => Found

\* C3: if a path is found with filter S1 then, for every filter S2 that
\* contains S1 and the same start, end and bounds, a path is found with S2
\* and its distance is at most the distance found with S1.
C3_Monotone ==
    (Done /\ IsEntry /\ P1 # P2 /\ Found)
    => \A tokens2 \in FilterArgs :
          ParseAllowed(request.allowed_relationships) \subseteq ParseAllowed(tokens2)
          => LET r2 == find_shortest_relationship_path(
                           P1, P2, tokens2, Caches, request.max_distance,
                           request.exclude_initial_spouse_children,
                           request.min_distance)
             IN r2.path # NoPath /\ r2.distance <= result.distance

\* C4: every returned path contains no person twice, for every request.
C4_NoDuplicates ==
    (Done /\ Found)
    => \A i, j \in 1..Len(result.path) :
          i # j => result.path[i] # result.path[j]

\* a path of three persons or more is returned under a positive min_distance
C4_Witness ==
    Done /\ Found /\ Len(result.path) >= 3 /\ request.min_distance > 0

\* C5: find_shortest_relationship_path(p, p) returns distance 0 and path [p]
\* for every filter and bounds.
C5_Identity ==
    (Done /\ IsEntry /\ P1 = P2 /\ P1 \in Persons)
    => result.distance = 0 /\ result.path = <<P1>>

\* the identity query is answered on a record set with families
C5_Witness ==
    /\ Done /\ IsEntry /\ P1 = P2 /\ family_lookup # {}
    /\ request.min_distance > 0 /\ result.path = <<P1>>

KnownFilterWords ==
    {"spouse", "mother", "father", "parents", "children", "blood", "sibling",
     "parent", "child", "all", "default"}

NegativeResult ==
    result.distance = -1 /\ result.path = NoPath /\ result.relationship_chain = <<>>

\* C6: for start # end in different components of the graph of enabled
\* edges (direction ignored), and for every filter made only of unknown
\* kind names, the result is distance -1, no path and an empty chain.
C6_Disconnected ==
    (Done /\ IsEntry /\ P1 # P2
          /\ \/ ~Connected(P1, P2, ReqAllowed)
             \/ request.allowed_relationships \cap KnownFilterWords = {})
    => NegativeResult

\* a disconnected pair under a filter that enables edges of the start person
C6_Witness ==
    /\ Done /\ IsEntry /\ P1 # P2 /\ NegativeResult
    /\ ~Connected(P1, P2, ReqAllowed)
    /\ \E q \in Persons : Edge(P1, q, ReqAllowed)

C8_StrictMin ==
    (Done /\ ~IsEntry /\ request.strict_min_distance)
    => /\ Found => result.distance >= request.min_distance
       /\ (/\ search.shortest_meeting_node # NoPerson
           /\ search.meeting_node = NoPerson) => ~Found

\* strict mode rejects a meeting point below min_distance
C8_Witness ==
    /\ Done /\ ~IsEntry /\ request.strict_min_distance /\ P1 # P2
    /\ search.shortest_meeting_node # NoPerson
    /\ search.shortest_distance < request.min_distance
    /\ ~Found

\* C9: with min_distance > 0 and strict mode off, once a meeting point has
\* been recorded a path is returned, never the negative result.
C9_Fallback ==
    (Done /\ IsEntry /\ P1 # P2 /\ request.min_distance > 0
          /\ search.shortest_meeting_node # NoPerson)
    => Found

\* C10: with min_distance = k > 0, if a simple path of length between k and
\* max_distance exists, the returned distance is the smallest such length.
C10_ShortestAtLeastMin ==
    LET ok == { n \in SimpleLengths(P1, P2, {P1}, ReqAllowed) :
                  request.min_distance <= n /\ n <= ReqMaxDistance }
    IN (Done /\ IsEntry /\ P1 # P2 /\ request.min_distance > 0
             /\ ~request.exclude_initial_spouse_children /\ ok # {})
       => Found /\ result.distance >= request.min_distance
                /\ result.distance = SetMin(ok)

\* q is recorded as a spouse or a child of p
SpouseOrChild(p, q) ==
    LET rel == ComputeRelationships(family_lookup, sex, p)
    IN q \in SeqToSet(rel.spouses) \cup SeqToSet(rel.children)

\* C11: with exclude_initial_spouse_children set, the step next to person1
\* does not join person1 to a spouse or child of person1, and the step next
\* to person2 does not join person2 to a spouse or child of person2.
C11_EndpointExclusion ==
    (Done /\ Found /\ P1 # P2 /\ request.exclude_initial_spouse_children)
    => /\ ~SpouseOrChild(P1, result.path[2])
       /\ ~SpouseOrChild(P2, result.path[Len(result.path) - 1])

\* C12: if an endpoint string is not the exact identifier of a person record,
\* the result is the error "Person not found" and no search is started.
C12_PersonNotFound ==
    (Done /\ IsEntry /\ (P1 \notin Persons \/ P2 \notin Persons))
    => result.error = "Person not found" /\ search = NoSearch

\* C13: for every successful result of find_shortest_relationship_path, the
\* identity query included, relationship_chain has one label less than path
\* has persons.
C13_ChainLength ==
    (Done /\ IsEntry /\ result.error = "" /\ Found)
    => Len(result.relationship_chain) = Len(result.path) - 1

\* C14: every returned path begins with the caller's person1 and ends with
\* the caller's person2, whether or not the engine swapped the two roots.
C14_Orientation ==
    (Done /\ IsEntry /\ Found)
    => /\ result.path[1] = P1
       /\ result.path[Len(result.path)] = P2

\* a path between two different persons was returned by a search that had
\* swapped its roots
C14_Witness ==
    /\ Done /\ IsEntry /\ Found /\ P1 # P2
    /\ search # NoSearch /\ search.swapped
    /\ result.path[1] = P1 /\ result.path[Len(result.path)] = P2

\* the labels the specification lists for the steps of a path
LabelVocabulary ==
    {"father_of", "mother_of", "parent_of", "son_of", "daughter_of",
     "child_of", "husband_of", "wife_of", "spouse_of", "brother_of",
     "sister_of", "sibling_of"}

\* C15: every label placed in relationship_chain for a step of a resolved
\* path is one of the twelve labels of LabelVocabulary.
C15_LabelVocabulary ==
    (Done /\ IsEntry /\ Found /\ P1 # P2)
    => \A i \in 1..Len(result.relationship_chain) :
          result.relationship_chain[i] \in LabelVocabulary

(***************************************************************************)
(* The path enumerators (gedcom_search.py 898-1161):                       *)
(* _find_all_relationship_paths_internal with _find_all_paths_dfs and      *)
(* _filter_redundant_paths, and _find_all_paths_to_ancestor_internal.      *)
(* They are checked under SpecPaths, whose requests call one of the three. *)
(***************************************************************************)
MaxPathsArg == 2
MaxListed == 3
DEFAULT_ALL_PATHS_DISTANCE == 15
DEFAULT_MAX_PATHS == 10

\* lines 1009-1012: the entry appended to all_paths
PathInfo(path) == [path |-> path, distance |-> Len(path) - 1]

\* every neighbor pushed, those on the path included
RECURSIVE PushNeighbors(_, _, _)
PushNeighborsAll(stack, path, list) ==
    IF list = <<>> THEN stack
    ELSE PushNeighbors(Append(stack, Append(path, Head(list)[1])), path, Tail(list))

\* lines 1024-1028: push the neighbors that are not on the path, in list order
PushNeighbors(stack, path, list) ==
    IF list = <<>> THEN stack
    ELSE IF Head(list)[1] \in SeqToSet(path)
    THEN PushNeighbors(stack, path, Tail(list))
    ELSE PushNeighbors(Append(stack, Append(path, Head(list)[1])), path, Tail(list))

\* _find_all_paths_dfs (lines 996-1030): stack holds the paths still to be
\* visited, the current node of an entry is the last person of its path
RECURSIVE DfsLoop(_, _, _, _, _, _, _)
RECURSIVE DfsVisit(_, _, _, _, _, _, _, _)
DfsVisit(path, stack, all_paths, c, end_node, allowed, max_depth, max_paths) ==
    IF path[Len(path)] = end_node
    THEN IF Len(all_paths) + 1 >= max_paths
         THEN [all_paths |-> Append(all_paths, PathInfo(path)), c |-> c]
         ELSE DfsLoop(stack, Append(all_paths, PathInfo(path)), c, end_node,
                      allowed, max_depth, max_paths)
    ELSE IF Len(path) > max_depth
    THEN DfsLoop(stack, all_paths, c, end_node, allowed, max_depth, max_paths)
    ELSE DfsLoop(PushNeighbors(stack, path,
                               GetNeighbors(c, path[Len(path)], allowed, FALSE)),
                 all_paths,
                 AfterNeighbors(c, path[Len(path)], allowed, FALSE),
                 end_node, allowed, max_depth, max_paths)

DfsLoop(stack, all_paths, c, end_node, allowed, max_depth, max_paths) ==
    IF stack = <<>> THEN [all_paths |-> all_paths, c |-> c]
    ELSE DfsVisit(stack[Len(stack)], SubSeq(stack, 1, Len(stack) - 1), all_paths,
                  c, end_node, allowed, max_depth, max_paths)

find_all_paths_dfs(start_node, end_node, allowed, c, max_depth, max_paths) ==
    DfsLoop(<< <<start_node>> >>, <<>>, c, end_node, allowed, max_depth, max_paths)

\* list.sort is stable: p goes behind the entries whose key is not larger
RECURSIVE InsertByDistance(_, _)
InsertByDistance(sorted, p) ==
    IF sorted = <<>> THEN <<p>>
    ELSE IF Head(sorted).distance <= p.distance
    THEN <<Head(sorted)>> \o InsertByDistance(Tail(sorted), p)
    ELSE <<p>> \o sorted

\* line 956: all_paths.sort(key=lambda p: p["distance"])
RECURSIVE SortByDistance(_)
SortByDistance(paths) ==
    IF paths = <<>> THEN <<>>
    ELSE InsertByDistance(SortByDistance(SubSeq(paths, 1, Len(paths) - 1)),
                          paths[Len(paths)])

RECURSIVE InsertByLength(_, _)
InsertByLength(sorted, p) ==
    IF sorted = <<>> THEN <<p>>
    ELSE IF Len(Head(sorted).path) <= Len(p.path)
    THEN <<Head(sorted)>> \o InsertByLength(Tail(sorted), p)
    ELSE <<p>> \o sorted

\* line 1042: paths.sort(key=lambda p: len(p["path"]))
RECURSIVE SortByLength(_)
SortByLength(paths) ==
    IF paths = <<>> THEN <<>>
    ELSE InsertByLength(SortByLength(SubSeq(paths, 1, Len(paths) - 1)),
                        paths[Len(paths)])

\* lines 1088-1093: some earlier path of the sorted list has its persons
\* among those of path i
IsRedundant(paths, i) ==
    \E j \in 1..(i - 1) : SeqToSet(paths[j].path) \subseteq SeqToSet(paths[i].path)

\* lines 1086-1095: the paths of the sorted list from index i on that are kept
RECURSIVE FinalPaths(_, _)
FinalPaths(paths, i) ==
    IF i > Len(paths) THEN <<>>
    ELSE IF IsRedundant(paths, i) THEN FinalPaths(paths, i + 1)
    ELSE <<paths[i]>> \o FinalPaths(paths, i + 1)

\* the filter that keeps every path
filter_nothing(paths) == paths

\* _filter_redundant_paths (lines 1032-1097); the loop of lines 1046-1078
\* only assigns a local that is never read
filter_redundant_paths(paths) ==
    IF paths = <<>> THEN <<>> ELSE FinalPaths(SortByLength(paths), 1)

\* lines 939-943: "all" enables the four kinds, any other string its tokens
ParseAllowedLiteral(tokens) ==
    IF tokens = {"all"} THEN {"parent", "spouse", "sibling", "child"} ELSE tokens

\* lines 930-933
NormalizeAllPathsDistance(max_distance) ==
    IF max_distance < 1 THEN DEFAULT_ALL_PATHS_DISTANCE ELSE max_distance

NormalizeMaxPaths(max_paths) ==
    IF max_paths < 1 THEN DEFAULT_MAX_PATHS ELSE max_paths

\* line 962: all_paths[:max_paths]
Truncate(paths, max_paths) == SubSeq(paths, 1, Min2(Len(paths), max_paths))

\* lines 965-970: the chains of the kept paths, in order
RECURSIVE LabelPaths(_, _, _)
LabelRest(path_info, labelled, rest, allowed) ==
    <<[path |-> path_info.path, distance |-> path_info.distance,
       relationship_chain |-> labelled.chain]>>
        \o LabelPaths(rest, allowed, labelled.c)

LabelPaths(paths, allowed, c) ==
    IF paths = <<>> THEN <<>>
    ELSE LabelRest(Head(paths),
                   generate_relationship_chain_lazy(Head(paths).path, allowed, c),
                   Tail(paths), allowed)

\* the caches after the labelling of lines 965-970
RECURSIVE CachesAfterLabels(_, _, _)
CachesAfterLabels(paths, allowed, c) ==
    IF paths = <<>> THEN c
    ELSE CachesAfterLabels(Tail(paths), allowed,
             generate_relationship_chain_lazy(Head(paths).path, allowed, c).c)

PathsResult(paths) == [error |-> "", paths |-> paths, total_paths |-> Len(paths)]

PathsPersonNotFound(person_id) ==
    [error |-> "Person not found", paths |-> <<>>, total_paths |-> 0]

\* line 927: the answer for person1_id = person2_id
SelfPaths(person_id) ==
    PathsResult(<<[path |-> <<person_id>>, distance |-> 0,
                   relationship_chain |-> <<"self">>]>>)

\* lines 956-962: sorted by distance, filtered, cut to max_paths
KeptPaths(all_paths, max_paths) ==
    Truncate(filter_redundant_paths(SortByDistance(all_paths)), max_paths)

\* lines 948-988 from the outcome found of the depth-first search
AllPathsAnswer(found, allowed, max_paths) ==
    [result |-> PathsResult(LabelPaths(KeptPaths(found.all_paths, max_paths),
                                       allowed, found.c)),
     c |-> CachesAfterLabels(KeptPaths(found.all_paths, max_paths), allowed, found.c)]

\* _find_all_relationship_paths_internal: its result and the caches it leaves
find_all_relationship_paths_internal(person1_id, person2_id, tokens, c, max_distance, max_paths) ==
    IF ~PersonExists(person1_id)
    THEN [result |-> PathsPersonNotFound(person1_id), c |-> c]
    ELSE IF ~PersonExists(person2_id)
    THEN [result |-> PathsPersonNotFound(person2_id), c |-> c]
    ELSE IF person1_id = person2_id
    THEN [result |-> SelfPaths(person1_id), c |-> c]
    ELSE AllPathsAnswer(
             find_all_paths_dfs(person1_id, person2_id, ParseAllowedLiteral(tokens),
                                c, NormalizeAllPathsDistance(max_distance),
                                NormalizeMaxPaths(max_paths)),
             ParseAllowedLiteral(tokens), NormalizeMaxPaths(max_paths))

\* _find_all_paths_to_ancestor_internal, dfs_find_ancestor_paths (lines
\* 1130-1154): visited always holds the persons of current_path; relc is the
\* relationships cache that get_person_record fills
RECURSIVE dfs_find_ancestor_paths(_, _, _, _, _)
RECURSIVE ExploreParents(_, _, _, _, _, _)
ExploreRest(parents, current_path, found, ancestor_id, max_paths) ==
    ExploreParents(parents, current_path, found.all_paths, found.relc,
                   ancestor_id, max_paths)

\* lines 1146-1154: the loop over person.parents
ExploreParents(parents, current_path, all_paths, relc, ancestor_id, max_paths) ==
    IF parents = <<>> THEN [all_paths |-> all_paths, relc |-> relc]
    ELSE IF Head(parents) \in SeqToSet(current_path)
    THEN ExploreParents(Tail(parents), current_path, all_paths, relc,
                        ancestor_id, max_paths)
    ELSE ExploreRest(Tail(parents), current_path,
                     dfs_find_ancestor_paths(Append(current_path, Head(parents)),
                                             all_paths, relc, ancestor_id, max_paths),
                     ancestor_id, max_paths)

dfs_find_ancestor_paths(current_path, all_paths, relc, ancestor_id, max_paths) ==
    IF Len(all_paths) >= max_paths THEN [all_paths |-> all_paths, relc |-> relc]
    ELSE IF current_path[Len(current_path)] = ancestor_id
    THEN [all_paths |-> Append(all_paths, current_path), relc |-> relc]
    ELSE ExploreParents(
             GetRelationships(relc, current_path[Len(current_path)]).parents,
             current_path, all_paths,
             StoreRelationships(relc, current_path[Len(current_path)]),
             ancestor_id, max_paths)

AncestorResult(paths) == [error |-> "", paths |-> paths]

\* lines 1120-1123: the ValueError raised for a missing person
AncestorNotFound(person_id) == [error |-> "not found", paths |-> <<>>]

\* the answer to start = ancestor left to the search
find_all_paths_to_ancestor_searching(start_person_id, ancestor_id, relc, max_paths) ==
    IF ~PersonExists(start_person_id) THEN AncestorNotFound(start_person_id)
    ELSE IF ~PersonExists(ancestor_id) THEN AncestorNotFound(ancestor_id)
    ELSE AncestorResult(
             dfs_find_ancestor_paths(<<start_person_id>>, <<>>, relc, ancestor_id,
                                     max_paths).all_paths)

\* _find_all_paths_to_ancestor_internal (lines 1100-1161): its result
find_all_paths_to_ancestor_internal(start_person_id, ancestor_id, relc, max_paths) ==
    IF ~PersonExists(start_person_id) THEN AncestorNotFound(start_person_id)
    ELSE IF ~PersonExists(ancestor_id) THEN AncestorNotFound(ancestor_id)
    ELSE IF start_person_id = ancestor_id
    THEN AncestorResult(<< <<start_person_id>> >>)
    ELSE AncestorResult(
             dfs_find_ancestor_paths(<<start_person_id>>, <<>>, relc, ancestor_id,
                                     max_paths).all_paths)

\* the relationships cache _find_all_paths_to_ancestor_internal leaves
AncestorCache(start_person_id, ancestor_id, relc, max_paths) ==
    IF ~PersonExists(start_person_id) THEN relc
    ELSE IF ~PersonExists(ancestor_id)
    THEN StoreRelationships(relc, get_person_record(start_person_id))
    ELSE IF start_person_id = ancestor_id
    THEN StoreRelationships(relc, get_person_record(start_person_id))
    ELSE dfs_find_ancestor_paths(
             <<start_person_id>>, <<>>,
             StoreRelationships(StoreRelationships(relc,
                 get_person_record(start_person_id)), get_person_record(ancestor_id)),
             ancestor_id, max_paths).relc

(***************************************************************************)
(* SpecPaths: one call of a path enumerator on a record set.               *)
(***************************************************************************)
\* record sets in which a person has a parent and a grandparent in common
Pedigrees ==
    { { [husb |-> t[1], wife |-> NoPerson, chil |-> {t[2], t[3]}],
        [husb |-> t[2], wife |-> NoPerson, chil |-> {t[3]}] } :
      t \in { u \in Persons \X Persons \X Persons :
                u[1] # u[2] /\ u[2] # u[3] /\ u[1] # u[3] } }

\* the identifiers of the larger record sets, and those on the paths
\* handed to _filter_redundant_paths
PathNodes == 1..(NumPersons + 1)

\* record sets in which two parents of a person are children of one person
Diamonds ==
    { { [husb |-> t[1], wife |-> NoPerson, chil |-> {t[2], t[3]}],
        [husb |-> t[2], wife |-> t[3], chil |-> {t[4]}] } :
      t \in { u \in PathNodes \X PathNodes \X PathNodes \X PathNodes :
                Cardinality({u[1], u[2], u[3], u[4]}) = 4 } }

PathSexProfiles ==
    { [p \in PathNodes |-> "U"],
      [p \in PathNodes |-> IF p % 2 = 1 THEN "M" ELSE "F"],
      [p \in PathNodes |-> IF p % 2 = 1 THEN "F" ELSE "M"] }

PathFilterArgs == { {"all"}, {"parent", "child"} }

AllPathsRequests ==
    [fn : {"_find_all_relationship_paths_internal"},
     person1_id : PathNodes, person2_id : PathNodes,
     allowed_relationships : PathFilterArgs,
     max_distance : 0..MaxDistanceArg,
     max_paths : 0..MaxPathsArg]

AncestorRequests ==
    [fn : {"_find_all_paths_to_ancestor_internal"},
     start_person_id : PathNodes, ancestor_id : PathNodes,
     max_paths : 0..MaxPathsArg]

Injective(p) == \A i, j \in DOMAIN p : p[i] = p[j] => i = j

\* the paths without a repeated person from s to e
SimplePaths(s, e) ==
    { p \in UNION { [1..n -> PathNodes] : n \in 2..(NumPersons + 1) } :
        p[1] = s /\ p[Len(p)] = e /\ Injective(p) }

\* what line 959 passes: different paths between the same two persons,
\* sorted by distance
ListedPaths ==
    UNION { { [i \in DOMAIN l |-> PathInfo(l[i])] :
              l \in { m \in UNION { [1..k -> SimplePaths(ends[1], ends[2])] :
                                    k \in 1..MaxListed } :
                        /\ Injective(m)
                        /\ \A i \in 1..(Len(m) - 1) : Len(m[i]) <= Len(m[i + 1]) } } :
            ends \in { e \in PathNodes \X PathNodes : e[1] # e[2] } }

FilterRequests == [fn : {"_filter_redundant_paths"}, paths : ListedPaths]

InitPaths ==
    /\ \/ /\ family_lookup \in RecordSets \cup Pedigrees
          /\ sex \in SexProfiles
          /\ request \in AllPathsRequests \cup AncestorRequests
       \/ /\ family_lookup \in Diamonds
          /\ sex \in PathSexProfiles
          /\ request \in AllPathsRequests \cup AncestorRequests
       \/ /\ family_lookup = {}
          /\ sex = [p \in Persons |-> "U"]
          /\ request \in FilterRequests
    /\ person_relationships_cache = <<>>
    /\ neighbor_cache = <<>>
    /\ pc = "idle"
    /\ search = NoSearch
    /\ result = NoResult

\* the result and the caches of a call are stored
Returns(answer) ==
    /\ result' = answer.result
    /\ SetCaches(answer.c)

CallFindAllPaths ==
    /\ pc = "idle"
    /\ request.fn = "_find_all_relationship_paths_internal"
    /\ Returns(find_all_relationship_paths_internal(
                   request.person1_id, request.person2_id,
                   request.allowed_relationships, Caches,
                   request.max_distance, request.max_paths))
    /\ pc' = "done"
    /\ UNCHANGED <<family_lookup, sex, request, search>>

CallFindAncestorPaths ==
    /\ pc = "idle"
    /\ request.fn = "_find_all_paths_to_ancestor_internal"
    /\ result' = find_all_paths_to_ancestor_internal(
                     request.start_person_id, request.ancestor_id,
                     person_relationships_cache, request.max_paths)
    /\ person_relationships_cache' =
           AncestorCache(request.start_person_id, request.ancestor_id,
                         person_relationships_cache, request.max_paths)
    /\ pc' = "done"
    /\ UNCHANGED <<family_lookup, sex, request, search, neighbor_cache>>

CallFilterRedundantPaths ==
    /\ pc = "idle"
    /\ request.fn = "_filter_redundant_paths"
    /\ result' = PathsResult(filter_redundant_paths(request.paths))
    /\ pc' = "done"
    /\ UNCHANGED <<family_lookup, sex, request, search,
                   person_relationships_cache, neighbor_cache>>

NextPaths ==
    \/ CallFindAllPaths
    \/ CallFindAncestorPaths
    \/ CallFilterRedundantPaths

SpecPaths == InitPaths /\ [][NextPaths]_vars

(***************************************************************************)
(* Properties of the path enumerators, checked under SpecPaths.            *)
(***************************************************************************)
IsAllPaths == request.fn = "_find_all_relationship_paths_internal"
IsAncestor == request.fn = "_find_all_paths_to_ancestor_internal"
IsFilter == request.fn = "_filter_redundant_paths"
EmptyCaches == [rel |-> <<>>, nb |-> <<>>]

\* the paths the depth-first search of the request enumerates
Enumerated ==
    find_all_paths_dfs(P1, P2, ParseAllowedLiteral(request.allowed_relationships),
                       EmptyCaches, NormalizeAllPathsDistance(request.max_distance),
                       NormalizeMaxPaths(request.max_paths)).all_paths

StrictSuperset(p, q) ==
    /\ SeqToSet(q.path) \subseteq SeqToSet(p.path)
    /\ SeqToSet(q.path) # SeqToSet(p.path)

\* C16: among the paths returned by one call of
\* _find_all_relationship_paths_internal, no path's set of persons is a
\* strict superset of another returned path's set of persons.
C16_RedundancyFree ==
    (Done /\ IsAllPaths)
    => \A i, j \in 1..Len(result.paths) :
          ~StrictSuperset(result.paths[i], result.paths[j])

\* two paths are returned and the search had enumerated more
C16_Witness ==
    /\ Done /\ IsAllPaths /\ P1 # P2
    /\ Len(result.paths) >= 2
    /\ Len(Enumerated) > Len(result.paths)

Kept(p) == \E k \in 1..Len(result.paths) : result.paths[k].path = p.path

SameEndpoints(p, q) ==
    /\ p.path[1] = q.path[1]
    /\ p.path[Len(p.path)] = q.path[Len(q.path)]

ShapeWithin(d, n) ==
    /\ Len(result.paths) <= n
    /\ \A k \in 1..Len(result.paths) :
          /\ result.paths[k].path[1] = P1
          /\ result.paths[k].path[Len(result.paths[k].path)] = P2
          /\ Injective(result.paths[k].path)
          /\ result.paths[k].distance <= d
          /\ Len(result.paths[k].path) - 1 <= d

\* C18 as stated: every path returned by _find_all_relationship_paths_internal
\* starts at person1, ends at person2, repeats no person and has distance at
\* most max_distance, and at most max_paths paths are returned.
C18_Shape ==
    (Done /\ IsAllPaths /\ result.error = "")
    => ShapeWithin(request.max_distance, request.max_paths)

\* C18, amended: the same with the limits in force, where an argument below 1
\* stands for 15 (max_distance) or 10 (max_paths).
C18_ShapeEffective ==
    (Done /\ IsAllPaths /\ result.error = "")
    => ShapeWithin(IF request.max_distance < 1 THEN DEFAULT_ALL_PATHS_DISTANCE
                   ELSE request.max_distance,
                   IF request.max_paths < 1 THEN DEFAULT_MAX_PATHS
                   ELSE request.max_paths)

\* a call whose limits both bind: one path of the longest distance allowed is
\* returned, and a second path exists
C18_Witness ==
    /\ Done /\ IsAllPaths /\ P1 # P2
    /\ request.max_paths = 1 /\ request.max_distance >= 2
    /\ Len(result.paths) = 1
    /\ result.paths[1].distance = request.max_distance
    /\ Len(find_all_paths_dfs(P1, P2,
               ParseAllowedLiteral(request.allowed_relationships), EmptyCaches,
               request.max_distance, DEFAULT_MAX_PATHS).all_paths) >= 2

\* find_shortest_relationship_path for the people and filter of the request
ShortestForRequest ==
    find_shortest_relationship_path(P1, P2, request.allowed_relationships,
                                    EmptyCaches, 0, FALSE, 0)

\* C19: for the same two people and filter, when find_shortest_relationship_path
\* returns a path and _find_all_relationship_paths_internal returns at least
\* one, the shortest distance is at most the distance of the first path.
C19_ShortestVsAllPaths ==
    (Done /\ IsAllPaths /\ result.error = "" /\ Len(result.paths) >= 1
          /\ ShortestForRequest.path # NoPath)
    => ShortestForRequest.distance <= result.paths[1].distance

IsParentOf(q, p) ==
    q \in SeqToSet(ComputeRelationships(family_lookup, sex, p).parents)

\* the paths of an ancestor result lead from start to ancestor over parents
AncestorShape ==
    \A k \in 1..Len(result.paths) :
       /\ result.paths[k][1] = request.start_person_id
       /\ result.paths[k][Len(result.paths[k])] = request.ancestor_id
       /\ Injective(result.paths[k])
       /\ \A i \in 1..(Len(result.paths[k]) - 1) :
             IsParentOf(result.paths[k][i + 1], result.paths[k][i])

AncestorIdentity ==
    request.start_person_id = request.ancestor_id
    => result.paths = << <<request.start_person_id>> >>

\* C20 as stated: _find_all_paths_to_ancestor_internal returns at most
\* max_paths paths, each from start to ancestor without a repeated person
\* and stepping to a parent; for start = ancestor the result is [[start]].
C20_AncestorPaths ==
    (Done /\ IsAncestor /\ result.error = "")
    => /\ Len(result.paths) <= request.max_paths
       /\ AncestorShape
       /\ AncestorIdentity

\* C20, amended: the bound max_paths holds when start differs from ancestor;
\* for start = ancestor the result is [[start]] whatever max_paths is.
C20_AncestorPathsAmended ==
    (Done /\ IsAncestor /\ result.error = "")
    => /\ request.start_person_id # request.ancestor_id
          => Len(result.paths) <= request.max_paths
       /\ AncestorShape
       /\ AncestorIdentity

\* one path of two steps is returned where max_paths = 2 would give two
C20_Witness ==
    /\ Done /\ IsAncestor
    /\ request.start_person_id # request.ancestor_id
    /\ request.max_paths = 1
    /\ Len(result.paths) = 1 /\ Len(result.paths[1]) = 3
    /\ Len(find_all_paths_to_ancestor_internal(request.start_person_id,
               request.ancestor_id, <<>>, 2).paths) = 2

(***************************************************************************)
(* The server session.  The tools of fastmcp_server.py serve one call      *)
(* after the other on one GedcomContext: searches, and tools that change   *)
(* the record set.  request.seq numbers the calls served so far.           *)
(***************************************************************************)
MaxOps == 3

ServerRequests ==
    { r \in [fn : {"find_shortest_relationship_path"},
             person1_id : Persons, person2_id : Persons,
             allowed_relationships : {{"all"}},
             max_distance : {0},
             exclude_initial_spouse_children : {FALSE},
             min_distance : {0},
             strict_min_distance : {FALSE},
             seq : 1..MaxOps] : r.person1_id # r.person2_id }

InitServer ==
    /\ family_lookup \in UpTo(MaxFamilies)
    /\ sex = [p \in Persons |-> "U"]
    /\ person_relationships_cache = <<>>
    /\ neighbor_cache = <<>>
    /\ request \in { r \in ServerRequests : r.seq = 1 }
    /\ pc = "idle"
    /\ search = NoSearch
    /\ result = NoResult

\* gedcom_context.py 47-52
clear_caches ==
    /\ person_relationships_cache' = <<>>
    /\ neighbor_cache' = <<>>

\* the next find_shortest_relationship_path tool call arrives
Receive(requests) ==
    /\ pc = "done"
    /\ request.seq < MaxOps
    /\ request' \in { r \in requests : r.seq = request.seq + 1 }
    /\ pc' = "idle"
    /\ search' = NoSearch
    /\ result' = NoResult
    /\ UNCHANGED <<family_lookup, sex, person_relationships_cache, neighbor_cache>>

\* a tool call that changes the record set is served between two searches
Served ==
    /\ pc = "done"
    /\ request.seq < MaxOps
    /\ request' = [request EXCEPT !.seq = @ + 1]
    /\ UNCHANGED <<sex, pc, search, result>>

\* fastmcp_server.py 220-229: CHIL and FAMC are added, the lookups rebuilt;
\* the caches are left as they are
AddChildToFamily ==
    /\ Served
    /\ \E family \in family_lookup, child_id \in Individuals :
          LET changed == [family EXCEPT !.chil = @ \cup {child_id}]
          IN /\ child_id \notin family.chil \cup {family.husb, family.wife}
             /\ changed \notin family_lookup
             /\ family_lookup' = (family_lookup \ {family}) \cup {changed}
    /\ UNCHANGED <<person_relationships_cache, neighbor_cache>>

\* fastmcp_server.py 209-218: a new family with HUSB and WIFE, FAMS on both;
\* the caches are left as they are
CreateMarriage ==
    /\ Served
    /\ Cardinality(family_lookup) <= MaxFamilies
    /\ \E husband_id \in Individuals, wife_id \in Individuals :
          LET family == [husb |-> husband_id, wife |-> wife_id, chil |-> {}]
          IN /\ husband_id # wife_id
             /\ family \notin family_lookup
             /\ family_lookup' = family_lookup \cup {family}
    /\ UNCHANGED <<person_relationships_cache, neighbor_cache>>

\* fastmcp_server.py 1305-1329: CHIL and FAMC are removed, then clear_caches
RemoveChildFromFamily ==
    /\ Served
    /\ \E family \in family_lookup, child_id \in Individuals :
          LET changed == [family EXCEPT !.chil = @ \ {child_id}]
          IN /\ child_id \in family.chil
             /\ changed \notin family_lookup
             /\ family_lookup' = (family_lookup \ {family}) \cup {changed}
    /\ clear_caches

NextServer ==
    \/ CallFindShortest
    \/ ForwardStep
    \/ BackwardStep
    \/ LoopBreak
    \/ Return
    \/ Receive(ServerRequests)
    \/ AddChildToFamily
    \/ CreateMarriage
    \/ RemoveChildFromFamily

SpecServer == InitServer /\ [][NextServer]_vars

\* every stored relationships record and neighbor list is the one the
\* current records give
CachesCurrent ==
    /\ \A person_id \in DOMAIN person_relationships_cache :
          person_relationships_cache[person_id]
              = ComputeRelationships(family_lookup, sex, person_id)
    /\ \A key \in DOMAIN neighbor_cache :
          neighbor_cache[key] = ComputeNeighbors(<<>>, key[1], key[2], key[3])

\* C21: after any sequence of searches and record-set changes made through
\* the server tools, the caches hold nothing computed from changed records
\* when the next search runs.
C21_CacheInvalidation ==
    (pc = "idle" \/ pc = "loop") => CachesCurrent

(***************************************************************************)
(* Searches sharing one context.  Each thread runs one call of             *)
(* _get_person_neighbors_lazy; the membership test of line 430 and the     *)
(* read of line 431 are two steps, and another thread's clear_caches may   *)
(* run between any two steps.  Here request, pc, search and result hold    *)
(* one value per thread: the arguments, the position, the cache_key built  *)
(* at lines 424-427 and the value returned or the exception raised.        *)
(***************************************************************************)
NumThreads == 2
Threads == 1..NumThreads

LookupArgs ==
    [person_id : Persons,
     allowed_relationships : {ParseAllowed({"all"})},
     exclude_spouse_children : BOOLEAN]

NoKey == <<>>
NoReturn == [error |-> "pending", neighbors |-> <<>>]

InitThreads ==
    /\ family_lookup \in UpTo(MaxFamilies)
    /\ sex = [p \in Persons |-> "U"]
    /\ person_relationships_cache = <<>>
    /\ neighbor_cache = <<>>
    /\ request \in [Threads -> LookupArgs]
    /\ pc = [t \in Threads |-> "call"]
    /\ search = [t \in Threads |-> NoKey]
    /\ result = [t \in Threads |-> NoReturn]

\* lines 424-430: the key is built and "cache_key in neighbor_cache" evaluated
TestCache(t) ==
    LET a == request[t]
        cache_key == <<a.person_id, a.allowed_relationships,
                       a.exclude_spouse_children>>
    IN /\ pc[t] = "call"
       /\ search' = [search EXCEPT ![t] = cache_key]
       /\ pc' = [pc EXCEPT ![t] = IF cache_key \in DOMAIN neighbor_cache
                                  THEN "read" ELSE "compute"]
       /\ UNCHANGED <<family_lookup, sex, request, result,
                      person_relationships_cache, neighbor_cache>>

\* line 431: neighbor_cache[cache_key]; a key no longer held raises KeyError
ReadCache(t) ==
    /\ pc[t] = "read"
    /\ IF search[t] \in DOMAIN neighbor_cache
       THEN /\ result' = [result EXCEPT ![t] =
                   [error |-> "", neighbors |-> neighbor_cache[search[t]]]]
            /\ pc' = [pc EXCEPT ![t] = "done"]
       ELSE /\ result' = [result EXCEPT ![t] =
                   [error |-> "KeyError", neighbors |-> <<>>]]
            /\ pc' = [pc EXCEPT ![t] = "failed"]
    /\ UNCHANGED <<family_lookup, sex, request, search,
                   person_relationships_cache, neighbor_cache>>

\* lines 433-488: the list is computed, stored under cache_key and returned
ComputeAndStore(t) ==
    LET a == request[t]
        neighbors == ComputeNeighbors(person_relationships_cache, a.person_id,
                                      a.allowed_relationships,
                                      a.exclude_spouse_children)
        c == AfterNeighbors([rel |-> person_relationships_cache,
                             nb |-> [k \in DOMAIN neighbor_cache \ {search[t]}
                                        |-> neighbor_cache[k]]],
                            a.person_id, a.allowed_relationships,
                            a.exclude_spouse_children)
    IN /\ pc[t] = "compute"
       /\ SetCaches(c)
       /\ result' = [result EXCEPT ![t] = [error |-> "", neighbors |-> neighbors]]
       /\ pc' = [pc EXCEPT ![t] = "done"]
       /\ UNCHANGED <<family_lookup, sex, request, search>>

\* gedcom_context.py 47-52, called by another thread of the same context
ConcurrentClear ==
    /\ \E t \in Threads : pc[t] \in {"read", "compute", "done"}
    /\ neighbor_cache # <<>> \/ person_relationships_cache # <<>>
    /\ clear_caches
    /\ UNCHANGED <<family_lookup, sex, request, pc, search, result>>

NextThreads ==
    \/ \E t \in Threads : TestCache(t)
    \/ \E t \in Threads : ReadCache(t)
    \/ \E t \in Threads : ComputeAndStore(t)
    \/ ConcurrentClear

SpecThreads == InitThreads /\ [][NextThreads]_vars

\* C22: with searches sharing one context and clear_caches running
\* concurrently, the membership test followed by the read of the cache never
\* fails, and every lookup returns the list the records give.
C22_SafeLookups ==
    \A t \in Threads :
        /\ pc[t] # "failed"
        /\ pc[t] = "done" =>
              result[t].neighbors
                  = ComputeNeighbors(<<>>, request[t].person_id,
                                     request[t].allowed_relationships,
                                     request[t].exclude_spouse_children)

(***************************************************************************)
(* Repeated searches on an unchanged record set: the second call finds the *)
(* caches as the first call, with its own filter and exclusion flag, left  *)
(* them.                                                                   *)
(***************************************************************************)
MaxRepeats == 2

RepeatRequests ==
    { r \in [fn : {"find_shortest_relationship_path"},
             person1_id : Persons, person2_id : Persons,
             allowed_relationships : {{"all"}, {"mother", "children"}},
             max_distance : {0},
             exclude_initial_spouse_children : BOOLEAN,
             min_distance : {0},
             strict_min_distance : {FALSE},
             seq : 1..MaxRepeats] : r.person1_id # r.person2_id }

InitRepeat ==
    /\ family_lookup \in RecordSets
    /\ sex = [p \in Persons |-> IF p % 2 = 1 THEN "F" ELSE "M"]
    /\ person_relationships_cache = <<>>
    /\ neighbor_cache = <<>>
    /\ request \in { r \in RepeatRequests : r.seq = 1 }
    /\ pc = "idle"
    /\ search = NoSearch
    /\ result = NoResult

NextRepeat ==
    \/ CallFindShortest
    \/ ForwardStep
    \/ BackwardStep
    \/ LoopBreak
    \/ Return
    \/ Receive(RepeatRequests)

SpecRepeat == InitRepeat /\ [][NextRepeat]_vars

\* the answer to the request being served when the caches start empty
ColdAnswer ==
    find_shortest_relationship_path(
        P1, P2, request.allowed_relationships, EmptyCaches, request.max_distance,
        request.exclude_initial_spouse_children, request.min_distance)

\* C23: on an unchanged record set a search returns the path and distance it
\* returns from empty caches, whatever earlier searches with other filters
\* and exclusion flags left in the caches, and every cached neighbor list
\* equals the list computed without the cache for its key.
C23_CacheTransparency ==
    /\ CachesCurrent
    /\ Done => /\ result.path = ColdAnswer.path
               /\ result.distance = ColdAnswer.distance

\* a path is returned by a second search whose start person has a neighbor
\* list in the cache under the other exclusion flag
C23_Witness ==
    /\ Done /\ Found /\ request.seq = MaxRepeats
    /\ <<P1, search.allowed_relationships,
         ~request.exclude_initial_spouse_children>> \in DOMAIN neighbor_cache

(***************************************************************************)
(* Direct calls of check_component_connectivity with a small node budget.  *)
(***************************************************************************)
MaxBudget == 4

ProbeRequests ==
    [fn : {"check_component_connectivity"},
     person1_id : Persons, person2_id : Persons,
     allowed_relationships : { ParseAllowed(t) : t \in {{"all"}, {"parents"}} },
     max_depth : 0..MaxBudget]

InitProbe ==
    /\ family_lookup \in RecordSets
    /\ sex = [p \in Persons |-> "U"]
    /\ person_relationships_cache = <<>>
    /\ neighbor_cache = <<>>
    /\ request \in ProbeRequests
    /\ pc = "idle"
    /\ search = NoSearch
    /\ result = [outcome |-> "pending"]

\* the whole call: its return value and the caches it leaves
CallProbe ==
    LET r == check_component_connectivity(
                 request.person1_id, request.person2_id,
                 request.allowed_relationships, Caches, request.max_depth)
    IN /\ pc = "idle"
       /\ result' = [outcome |-> r.outcome]
       /\ SetCaches(r.c)
       /\ pc' = "done"
       /\ UNCHANGED <<family_lookup, sex, request, search>>

SpecProbe == InitProbe /\ [][CallProbe]_vars

\* the persons reached from S by at most k resolver edges, followed forward
RECURSIVE Reached(_, _, _)
Reached(S, k, allowed) ==
    IF k = 0 THEN S
    ELSE LET B == Reached(S, k - 1, allowed)
         IN B \cup { q \in Persons : \E p \in B : Edge(p, q, allowed) }

\* everything the probe can reach from person1_id
Reachable == Reached({P1}, NumPersons, request.allowed_relationships)

\* the number of edges of a shortest forward chain from person1_id to person2_id
ForwardDistance ==
    CHOOSE k \in 0..NumPersons :
        /\ P2 \in Reached({P1}, k, request.allowed_relationships)
        /\ \A j \in 0..(k - 1) : P2 \notin Reached({P1}, j, request.allowed_relationships)

\* the persons strictly nearer to person1_id than person2_id is
Nearer == Reached({P1}, ForwardDistance - 1, request.allowed_relationships)

ProbeTrueOnlyIfReachable == result.outcome = "True" => P2 \in Reachable

ProbeFalseOnlyIfExplored ==
    result.outcome = "False" =>
        P2 \notin Reachable /\ Cardinality(Reachable) < request.max_depth

\* the budget is used up while person2_id is still ahead in the queue order
\* or, person2_id being out of reach, while reachable persons are left
BudgetRanOutFirst ==
    /\ P1 # P2
    /\ IF P2 \in Reachable THEN request.max_depth <= Cardinality(Nearer)
       ELSE request.max_depth < Cardinality(Reachable)

\* C24: check_component_connectivity returns True only if end is reachable
\* from start, False only if the whole reachable set was explored without
\* meeting end, and None exactly when the node budget ran out first: with
\* None some reachable person was left unexplored.
C24_ProbeOutcome ==
    Done => /\ ProbeTrueOnlyIfReachable
            /\ ProbeFalseOnlyIfExplored
            /\ BudgetRanOutFirst => result.outcome = "None"
            /\ result.outcome = "None" =>
                  P1 # P2 /\ request.max_depth < Cardinality(Reachable)

\* C24 amended: None is also the answer when the reachable set, without end
\* in it, is explored by exactly max_depth nodes.
C24_ProbeOutcomeAmended ==
    Done => /\ ProbeTrueOnlyIfReachable
            /\ ProbeFalseOnlyIfExplored
            /\ BudgetRanOutFirst => result.outcome = "None"
            /\ (P1 # P2 /\ P2 \notin Reachable
                   /\ request.max_depth = Cardinality(Reachable))
                  => result.outcome = "None"
            /\ result.outcome = "None" =>
                  P1 # P2 /\ request.max_depth <= Cardinality(Reachable \ {P2})

\* the reachable set is explored by exactly max_depth nodes and None returned
C24_Witness ==
    /\ Done /\ result.outcome = "None" /\ P2 \notin Reachable
    /\ request.max_depth = Cardinality(Reachable) /\ request.max_depth >= 2

(***************************************************************************)
(* Searches over longer lineages: four generations in three family         *)
(* records, searched with one-directional filters as well.                 *)
(***************************************************************************)
Chains ==
    { { [husb |-> NoPerson, wife |-> t[1], chil |-> {t[2]}],
        [husb |-> t[2], wife |-> NoPerson, chil |-> {t[3]}],
        [husb |-> NoPerson, wife |-> t[3], chil |-> {t[4]}] } :
      t \in { u \in PathNodes \X PathNodes \X PathNodes \X PathNodes :
                Cardinality({u[1], u[2], u[3], u[4]}) = 4 } }

ChainFilterArgs ==
    { {"all"}, {"parents"}, {"children"}, {"mother"}, {"father"},
      {"parent", "sibling"} }

ChainRequests ==
    { r \in [fn : {"find_shortest_relationship_path"},
             person1_id : PathNodes, person2_id : PathNodes,
             allowed_relationships : ChainFilterArgs,
             max_distance : {0},
             exclude_initial_spouse_children : BOOLEAN,
             min_distance : {0},
             strict_min_distance : {FALSE}]
          \cup
          [fn : {"_dijkstra_bidirectional_search"},
           person1_id : PathNodes, person2_id : PathNodes,
           allowed_relationships : { ParseAllowed(t) : t \in ChainFilterArgs },
           max_distance : {MaxDistanceArg},
           exclude_initial_spouse_children : {FALSE},
           min_distance : 0..1,
           strict_min_distance : {TRUE}] :
        r.person1_id # r.person2_id }

InitChains ==
    /\ family_lookup \in Chains \cup UpTo(MaxFamilies)
    /\ sex = [p \in PathNodes |-> IF p % 2 = 1 THEN "F" ELSE "M"]
    /\ person_relationships_cache = <<>>
    /\ neighbor_cache = <<>>
    /\ request \in ChainRequests
    /\ pc = "idle"
    /\ search = NoSearch
    /\ result = NoResult

SpecChains == InitChains /\ [][Next]_vars

(***************************************************************************)
(* Properties of the engine's steps.                                       *)
(***************************************************************************)
\* the engine run on the arguments of the current search with lines 30-39
\* left out: the probe's answer is taken as None
WithoutProbe ==
    EngineRun(AfterProbe(search.original_start, search.original_end,
                         search.allowed_relationships,
                         search.effective_max_distance,
                         search.exclude_initial_spouse_children,
                         search.min_distance, search.strict_min_distance,
                         [outcome |-> "None", c |-> EmptyCaches]))

\* C25: whenever the probe reports False, the engine run on the same request
\* without the probe also reports no path.
C25_ProbeOnlyOptimises ==
    (Done /\ search # NoSearch /\ search.connectivity_result = "False"
          /\ {search.original_start, search.original_end} \subseteq Individuals)
    => WithoutProbe.ret.path = NoPath

\* lines 300-317: the meeting node the reconstruction starts from
AcceptedMeeting ==
    IF /\ search.meeting_node = NoPerson
       /\ search.min_distance > 0
       /\ search.shortest_meeting_node # NoPerson
       /\ ~search.strict_min_distance
    THEN search.shortest_meeting_node
    ELSE search.meeting_node

\* C26: for every graph and request, min_distance > 0 included, the forward
\* and backward chains concatenated at the accepted meeting node contain no
\* person twice, so the return on duplicates is never taken.
C26_DuplicateBranchDead ==
    (pc = "resolve" /\ AcceptedMeeting # NoPerson)
    => ~HasDuplicates(ReconstructPath(search, AcceptedMeeting))

\* C27: for every returned path and every step (p_i, p_i+1) of it, the
\* Neighbor Resolver called on p_i with the request's filter yields p_i+1,
\* also for the steps found by the backward search and under the
\* one-directional filters {parent}, {child}, {mother}, {father}.
C27_OnlyEnabledKinds ==
    (Done /\ Found)
    => \A i \in 1..(Len(result.path) - 1) :
          Edge(result.path[i], result.path[i + 1], ReqAllowed)

\* the persons within k enabled edges of root, the edges followed as the
\* search expands them: the exclusion flag applies to the root's list only
RECURSIVE WithinOf(_, _, _, _)
WithinOf(root, k, allowed, exclude) ==
    IF k = 0 THEN {root}
    ELSE LET B == WithinOf(root, k - 1, allowed, exclude)
         IN B \cup { q \in Individuals : \E p \in B :
                       q \in NeighborIds(ComputeNeighbors(
                                <<>>, p, allowed, exclude /\ p = root)) }

\* the length of a shortest chain of enabled edges from root to v
ChainDistance(root, v, allowed, exclude) ==
    CHOOSE k \in 0..Cardinality(Individuals) :
        /\ v \in WithinOf(root, k, allowed, exclude)
        /\ \A j \in 0..(k - 1) : v \notin WithinOf(root, j, allowed, exclude)

Searching == pc \in {"loop", "resolve"}

\* every visited node of the side carries its shortest distance from root
SettledExact(side, root) ==
    \A v \in side.visited :
        /\ v \in WithinOf(root, Cardinality(Individuals),
                          search.allowed_relationships,
                          search.exclude_initial_spouse_children)
        /\ side.distances[v]
              = ChainDistance(root, v, search.allowed_relationships,
                              search.exclude_initial_spouse_children)

\* a step keeps what is settled and settles nothing nearer than before
SettledKept(old, new) ==
    /\ old.visited \subseteq new.visited
    /\ \A v \in old.visited :
          /\ new.distances[v] = old.distances[v]
          /\ new.previous[v] = old.previous[v]
          /\ \A n \in new.visited \ old.visited :
                old.distances[v] <= new.distances[n]

\* C28: on each side nodes are marked visited in non-decreasing order of
\* accumulated distance, the recorded distance of a visited node is the
\* length of a shortest chain of enabled edges from that side's root (the
\* endpoint exclusion applied at the root only), and a visited node's
\* distance and predecessor never change afterwards.
C28_SettledExact ==
    /\ [](Searching => /\ SettledExact(search.forward, search.start)
                       /\ SettledExact(search.backward, search.end))
    /\ [][Searching => /\ SettledKept(search.forward, search'.forward)
                       /\ SettledKept(search.backward, search'.backward)]_vars

\* a node two edges from the forward root is visited on a lineage
C28_Witness ==
    /\ Searching
    /\ \E v \in search.forward.visited : search.forward.distances[v] >= 2
    /\ search.backward.visited # {}

(***************************************************************************)
(* NodePriority with the heuristics computed (gedcom_models.py 73-107).    *)
(* Birth years are drawn 25 years apart, so that birth_year_distance / 25  *)
(* is a whole number and the adjusted distance is computed exactly.        *)
(***************************************************************************)
BIRTH_YEAR_PROXIMITY_THRESHOLD == 500
BIRTH_YEAR_HEURISTIC_FACTOR == 25
HAS_BIRTH_YEAR_BONUS == 5000
NoYear == 0
BirthYears == {1900, 1925, 2000, 2500}

Abs(x) == IF x < 0 THEN 0 - x ELSE x

\* init_heuristics on an entry whose person has the given birth year
init_heuristics(entry, birth_year, target_birth_year) ==
    LET birth_year_distance ==
            IF birth_year # NoYear /\ target_birth_year # NoYear
                THEN Abs(birth_year - target_birth_year)
            ELSE IF birth_year # NoYear THEN HAS_BIRTH_YEAR_BONUS
            ELSE NO_BIRTH_YEAR_PENALTY
    IN [entry EXCEPT
          !.birth_year_distance = birth_year_distance,
          !.adjusted_distance =
              IF birth_year_distance < BIRTH_YEAR_PROXIMITY_THRESHOLD
              THEN entry.distance
                     + birth_year_distance \div BIRTH_YEAR_HEURISTIC_FACTOR
              ELSE entry.distance]

FrontierEntries ==
    [distance : 0..MaxDistanceArg, person_id : Persons,
     birth_year : BirthYears \cup {NoYear}]

PriorityRequests ==
    [fn : {"NodePriority.__lt__"},
     a : FrontierEntries, b : FrontierEntries,
     target_birth_year : BirthYears \cup {NoYear}]

InitPriority ==
    /\ family_lookup = {}
    /\ sex = [p \in Persons |-> "U"]
    /\ person_relationships_cache = <<>>
    /\ neighbor_cache = <<>>
    /\ request \in PriorityRequests
    /\ pc = "idle"
    /\ search = NoSearch
    /\ result = [a_first |-> FALSE]

\* both entries are built, init_heuristics is called on each, a < b evaluated
ComparePriorities ==
    LET a == init_heuristics(NodePriority(request.a.distance, request.a.person_id),
                             request.a.birth_year, request.target_birth_year)
        b == init_heuristics(NodePriority(request.b.distance, request.b.person_id),
                             request.b.birth_year, request.target_birth_year)
    IN /\ pc = "idle"
       /\ result' = [a_first |-> PriorityLess(a, b)]
       /\ pc' = "done"
       /\ UNCHANGED <<family_lookup, sex, request, search,
                      person_relationships_cache, neighbor_cache>>

SpecPriority == InitPriority /\ [][ComparePriorities]_vars

\* C29: of two frontier entries with the heuristics computed, the one with
\* the smaller accumulated distance orders first whenever the distances
\* differ; the birth-year term reorders only entries of equal distance.
C29_NudgeOnlyBreaksTies ==
    (Done /\ request.a.distance < request.b.distance) => result.a_first

(***************************************************************************)
(* Termination.  The search is synchronous code: a call that can take a    *)
(* step takes it, which is weak fairness of the steps.  The wall-clock     *)
(* limit of lines 283-298 is no part of the model.                         *)
(*                                                                         *)
(* A step of Next is enabled exactly when the call has not returned.       *)
(* NotReturned states that enabling condition as an action, so that it is  *)
(* evaluated without running the step; [][Next]_vars admits the steps of   *)
(* Next only, hence the fairness condition is that of WF_vars(Next).       *)
(***************************************************************************)
NotReturned ==
    /\ pc # "done"
    /\ pc' = "done"
    /\ UNCHANGED <<family_lookup, sex, request, search, result,
                   person_relationships_cache, neighbor_cache>>

FairChains == SpecChains /\ WF_vars(NotReturned \/ Next)

\* one entry leaves the side's queue, and every entry that enters it lowers
\* the recorded distance of a node that is not visited
PopsOne(old, new) ==
    /\ Cardinality(old.pq \ new.pq) = 1
    /\ \A n \in new.pq \ old.pq :
          /\ n.person_id \notin new.visited
          /\ n.distance < old.distances[n.person_id]
          /\ n.distance = new.distances[n.person_id]

\* C30: the main loop of _dijkstra_bidirectional_search exits without the
\* wall-clock limit: every iteration either breaks or pops one queue entry,
\* an entry is pushed only when it strictly lowers the recorded distance of
\* a node not yet visited, and every search reaches its return.
C30_LoopTerminates ==
    /\ [](pc = "loop" /\ ~LoopStops(search)
            => search[ChosenSide(search)].pq # {})
    /\ [][pc = "loop" =>
            \/ pc' = "resolve" /\ search' = search
            \/ PopsOne(search.forward, search'.forward)
                  /\ search'.backward = search.backward
            \/ PopsOne(search.backward, search'.backward)
                  /\ search'.forward = search.forward]_vars
    /\ (pc = "loop") ~> (pc = "done")

\* a search has returned after three nodes or more were visited
C30_Witness ==
    /\ Done /\ search # NoSearch
    /\ Cardinality(search.forward.visited)
          + Cardinality(search.backward.visited) >= 3


============================================================================
